---- MODULE Spec2Model ----
(***************************************************************************)
(* A model of two parts of the importer library:                           *)
(*   - code/AssetLib/glTF/glTFImporter.cpp, the scene graph assembler      *)
(*     (face synthesis, materials, mesh offsets, nodes);                   *)
(*   - code/AssetLib/ASE/ASEParser.cpp, the section parser.                *)
(* Each part has its own specification over the shared variables; the     *)
(* variables a specification does not use keep their initial value.       *)
(***************************************************************************)
EXTENDS Integers, Sequences, FiniteSets, TLC

VARIABLES
    pc,            \* position of the running function
    warnings,      \* the log: sequence of warning kinds, oldest first
    ub,            \* undefined behaviour met so far (set of event names)
    \* ---- glTFImporter::ImportMeshes, one primitive ----
    mode,          \* Mesh::Primitive::mode
    indexed,       \* primitive.indices is set
    data,          \* the index accessor: data.GetUInt(k) = data[k + 1]
    mNumVertices,  \* aim->mNumVertices
    count,         \* local count
    nFaces,        \* local nFaces
    faces,         \* local faces: written slots only, slot -> mIndices
    i,             \* loop counter
    \* ---- glTFImporter::ImportMeshes, the vertex attributes of one primitive ----
    position,      \* attr.position: the accessors, each Null or its count
    texcoord,      \* attr.texcoord: the accessors, each its count and its v values
    tc,            \* loop counter over attr.texcoord
    mTextureCoords, \* aim->mTextureCoords: the arrays made, by the v of each element
    \* ---- glTFImporter: embedded textures and materials ----
    images,          \* r.images: [data: has inline data, uri: its path]
    materials,       \* r.materials
    embeddedTexIdxs, \* glTFImporter::embeddedTexIdxs
    mTextures,       \* mScene->mTextures[0 .. mNumTextures-1]
    mMaterials,      \* mScene->mMaterials[0 .. mNumMaterials-1], each the
                     \* list of the properties added to it
    \* ---- glTFImporter: meshes and nodes ----
    meshPrims,     \* r.meshes: mesh.primitives.size() of each source mesh
    nodes,         \* r.nodes
    sceneNodes,    \* r.scene->nodes (indices into r.nodes), NoScene without r.scene
    meshOffsets,   \* glTFImporter::meshOffsets
    meshM,         \* ImportMeshes: loop counter m over the source meshes
    meshK,         \* ImportMeshes: running output mesh counter k
    mMeshes,       \* mScene->mMeshes[0 .. mNumMeshes-1]
    outNodes,      \* the aiNode objects made, by the source node they come from
    mRootNode,     \* mScene->mRootNode
    \* ---- glTFImporter: cameras, lights, metadata, flags ----
    cameras,       \* r.cameras.Size()
    lights,        \* r.lights.Size()
    assetInfo,     \* the non-empty ones of asset.version, generator, copyright
    mCameras,      \* mScene->mCameras: Null, or the array of aiCamera objects
    mLights,       \* mScene->mLights: Null, or the array of aiLight objects
    mMetaData,     \* mScene->mMetaData: Null, or the keys added
    mFlags,        \* pScene->mFlags, the set of the flags that are set
    \* ---- ASE::Parser ----
    input,           \* the memory at Parser's file pointer: the bytes of the file and
                     \* the bytes that follow them, up to a zero
    mEnd,            \* Parser::mEnd = file + fileLen, as an offset into input
    mFilePtr,        \* Parser::mFilePtr, as an offset into the file
    iLineNumber,     \* Parser::iLineNumber
    bLastWasEndLine, \* Parser::bLastWasEndLine
    lineHits,        \* history: the offset mFilePtr had at each ++iLineNumber
    stack,           \* the running handlers, innermost first: function, iDepth, locals
    fatal,           \* the message of the DeadlyImportError thrown, if any
    m_vMaterials,    \* Parser::m_vMaterials
    m_vMeshes,       \* Parser::m_vMeshes
    mesh             \* the ASE::Mesh a list handler fills

faceVars == <<mode, indexed, data, mNumVertices, count, nFaces, faces, i>>
uvVars == <<position, texcoord, tc, mTextureCoords>>
matVars == <<images, materials, embeddedTexIdxs, mTextures, mMaterials>>
auxVars == <<cameras, lights, assetInfo, mCameras, mLights, mMetaData, mFlags>>
sceneVars == <<meshPrims, nodes, sceneNodes, meshOffsets, meshM, meshK, mMeshes, outNodes,
               mRootNode, auxVars>>
aseVars == <<input, mEnd, mFilePtr, iLineNumber, bLastWasEndLine, lineHits, stack, fatal,
             m_vMaterials, m_vMeshes, mesh>>
vars == <<pc, warnings, ub, faceVars, uvVars, matVars, sceneVars, aseVars>>

\* the variables of the other parts, which a part's actions leave alone
notFaceVars == <<uvVars, matVars, sceneVars, aseVars>>
notMatVars == <<faceVars, uvVars, sceneVars, aseVars>>
notSceneVars == <<faceVars, uvVars, matVars, aseVars>>
notAseVars == <<faceVars, uvVars, matVars, sceneVars>>

----------------------------------------------------------------------------
(* Bounds of the model *)

MaxCount == 4      \* longest index buffer / largest vertex count
MaxVal == 2        \* largest value stored in an index buffer
MaxImages == 3     \* most images of an asset
MaxMaterials == 2  \* most materials of an asset
MaxMeshes == 3     \* most source meshes of an asset
MaxPrims == 3      \* most primitives of a source mesh
MaxRefs == 2       \* most mesh references of a node
MaxComp == 2       \* number of distinct values of a transform component
MaxChunks == 3     \* most pieces of a file
MaxIndex == 2      \* largest index and largest declared count of a list
MaxEntries == 2    \* most entries of a list
MaxAux == 2        \* most cameras, most lights of an asset
MaxGroups == 2     \* most ids of a smoothing-group list
MaxSkip == 4       \* most pieces of a skipped section
MaxItems == 2      \* most counts and entries of a material list

----------------------------------------------------------------------------
(* Helpers *)

\* unsigned int arithmetic wraps. TLC's integers cannot hold 2^32, so the model
\* keeps 16 bits of it: every count of the model is far below either modulus
UIntModulus == 2 ^ 16

U32(x) == x % UIntModulus

RECURSIVE SeqsUpTo(_, _)
SeqsUpTo(S, n) ==
    IF n = 0 THEN {<<>>}
    ELSE LET shorter == SeqsUpTo(S, n - 1)
         IN  shorter \cup {Append(s, x) : s \in {t \in shorter : Len(t) = n - 1}, x \in S}

EmptyMap == [k \in {} |-> <<>>]

\* the state of the part of the importer a specification does not run
FacesIdle ==
    /\ mode = "POINTS" /\ indexed = FALSE /\ data = <<>> /\ mNumVertices = 0
    /\ count = 0 /\ nFaces = 0 /\ faces = EmptyMap /\ i = 0

UVIdle ==
    /\ position = <<>> /\ texcoord = <<>> /\ tc = 0 /\ mTextureCoords = <<>>

\* r.scene is not set
NoScene == [isSet |-> FALSE, nodes |-> <<>>]

\* pointers to aiNode objects: the null pointer, the object made from source node n
Null == <<>>
Ptr(n) == <<n>>

SceneIdle ==
    /\ meshPrims = <<>> /\ nodes = <<>> /\ sceneNodes = NoScene /\ meshOffsets = <<>>
    /\ meshM = 0 /\ meshK = 0 /\ mMeshes = <<>> /\ outNodes = EmptyMap /\ mRootNode = Null
    /\ cameras = 0 /\ lights = 0 /\ assetInfo = {} /\ mCameras = Null /\ mLights = Null
    /\ mMetaData = Null /\ mFlags = {}

\* glTFImporter::InternReadFile: the functions it calls, in the order of the calls;
\* the test of mNumMeshes follows them
InternReadFileNodesFirst ==
    <<"ImportEmbeddedTextures", "ImportMaterials", "ImportMeshes", "ImportNodes",
      "ImportCameras", "ImportLights", "ImportCommonMetadata", "InternReadFileEnd", "done">>

InternReadFile ==
    <<"ImportEmbeddedTextures", "ImportMaterials", "ImportMeshes", "ImportCameras",
      "ImportLights", "ImportNodes", "ImportCommonMetadata", "InternReadFileEnd", "done">>

PosOf(fn) == CHOOSE k \in 1 .. Len(InternReadFile) : InternReadFile[k] = fn

\* where InternReadFile goes on when fn returns
AfterCall(fn) == InternReadFile[PosOf(fn) + 1]

\* fn has returned
Returned(fn) == PosOf(pc) > PosOf(fn)

MaterialsIdle ==
    /\ images = <<>> /\ materials = <<>> /\ embeddedTexIdxs = <<>>
    /\ mTextures = <<>> /\ mMaterials = <<>>

AseIdle ==
    /\ input = <<>> /\ mEnd = 0 /\ mFilePtr = 0 /\ iLineNumber = 0 /\ bLastWasEndLine = FALSE
    /\ lineHits = <<>> /\ stack = <<>> /\ fatal = <<>> /\ m_vMaterials = <<>>
    /\ m_vMeshes = <<>> /\ mesh = <<>>

----------------------------------------------------------------------------
(* glTFImporter::ImportMeshes: face synthesis of one primitive *)

PrimitiveModes ==
    {"POINTS", "LINES", "LINE_LOOP", "LINE_STRIP",
     "TRIANGLES", "TRIANGLE_STRIP", "TRIANGLE_FAN"}

\* what a read of memory that was never written can yield
Garbage == {0, MaxVal + 5}

\* data.GetUInt(k) for an index buffer, the implied index k without one;
\* a position outside the buffer is a read past the accessor's data
GetUInt(k) ==
    IF ~indexed THEN {k}
    ELSE IF k < Len(data) THEN {data[k + 1]}
    ELSE Garbage

GetUIntUB(k) == IF indexed /\ k >= Len(data) THEN {"index_read_oob"} ELSE {}

\* faces[f].mIndices[j]: a slot SetFace has not filled holds no index array
FaceIndex(f, j) ==
    IF f \in DOMAIN faces /\ j < Len(faces[f]) THEN {faces[f][j + 1]}
    ELSE Garbage

FaceIndexUB(f, j) ==
    IF f \in DOMAIN faces /\ j < Len(faces[f]) THEN {} ELSE {"face_read_unwritten"}

\* new aiFace[n] followed by SetFace(faces[f], ...): a slot outside the
\* allocation is a heap overflow and leaves the array as it was
SetFace(fs, n, f, idx) ==
    IF f < n
    THEN [k \in DOMAIN fs \cup {f} |-> IF k = f THEN idx ELSE fs[k]]
    ELSE fs

SetFaceUB(n, f) == IF f < n THEN {} ELSE {"face_write_oob"}

\* every face index is below the vertex count
CheckValidFacesIndices(fs, nVerts) ==
    \A f \in DOMAIN fs : \A j \in 1 .. Len(fs[f]) : fs[f][j] < nVerts

FacesInit ==
    /\ mode \in PrimitiveModes
    /\ indexed \in BOOLEAN
    /\ data \in (IF indexed THEN SeqsUpTo(0 .. MaxVal, MaxCount) ELSE {<<>>})
    /\ mNumVertices \in 0 .. MaxCount
    /\ count = 0
    /\ nFaces = 0
    /\ faces = EmptyMap
    /\ i = 0
    /\ pc = "switch"
    /\ warnings = <<>>
    /\ ub = {}
    /\ UVIdle
    /\ MaterialsIdle
    /\ SceneIdle
    /\ AseIdle

\* one statement that writes face slot f with one of the index tuples in idxs;
\* when it met undefined behaviour (ubs) the build may also fault there
FaceWrite(n, f, idxs, ubs, nextI, nextPc) ==
    \/ /\ \E idx \in idxs : faces' = SetFace(faces, n, f, idx)
       /\ ub' = ub \cup ubs \cup SetFaceUB(n, f)
       /\ i' = nextI
       /\ pc' = nextPc
    \/ /\ ubs \cup SetFaceUB(n, f) # {}
       /\ ub' = ub \cup ubs \cup SetFaceUB(n, f)
       /\ pc' = "fault"
       /\ UNCHANGED <<faces, i>>

TruncateNot(c, arity) == c

\* lines / triangles: count = nFaces * arity drops the trailing remainder
Truncate(c, arity) == (c \div arity) * arity

LinePrevFaceNext(k) == k - 1

\* the face a line strip or loop takes its first index from, writing slot k - 1
LinePrevFace(k) == k - 2

\* the face a triangle strip or fan reads, writing slot k - 2
StripPrevFace(k) == k - 1

Pairs(A, B) == {<<a, b>> : a \in A, b \in B}
Triples(A, B, C) == {<<a, b, c>> : a \in A, b \in B, c \in C}

DropWarning == "vertices_dropped"

\* the switch over the mode up to the first loop test: nFaces, the allocation,
\* the truncation of count and, for strips, loops and fans, the first face
SwitchMode ==
    /\ pc = "switch"
    /\ LET c0 == IF indexed THEN Len(data) ELSE mNumVertices
       IN  CASE mode = "POINTS" ->
                  /\ nFaces' = c0 /\ count' = c0 /\ i' = 0 /\ pc' = "loop"
                  /\ UNCHANGED <<faces, warnings, ub>>
             [] mode \in {"LINES", "TRIANGLES"} ->
                  LET arity == IF mode = "LINES" THEN 2 ELSE 3
                      n == c0 \div arity
                  IN  /\ nFaces' = n
                      /\ count' = Truncate(c0, arity)
                      /\ warnings' = IF n * arity # c0
                                     THEN Append(warnings, DropWarning)
                                     ELSE warnings
                      /\ i' = 0 /\ pc' = "loop"
                      /\ UNCHANGED <<faces, ub>>
             [] mode \in {"LINE_LOOP", "LINE_STRIP"} ->
                  LET n == U32(c0 - (IF mode = "LINE_STRIP" THEN 1 ELSE 0))
                  IN  /\ nFaces' = n /\ count' = c0
                      /\ FaceWrite(n, 0, Pairs(GetUInt(0), GetUInt(1)),
                                   GetUIntUB(0) \cup GetUIntUB(1), 2, "loop")
                      /\ UNCHANGED warnings
             [] mode \in {"TRIANGLE_STRIP", "TRIANGLE_FAN"} ->
                  LET n == U32(c0 - 2)
                  IN  /\ nFaces' = n /\ count' = c0
                      /\ FaceWrite(n, 0, Triples(GetUInt(0), GetUInt(1), GetUInt(2)),
                                   GetUIntUB(0) \cup GetUIntUB(1) \cup GetUIntUB(2),
                                   3, "loop")
                      /\ UNCHANGED warnings
    /\ UNCHANGED <<mode, indexed, data, mNumVertices, notFaceVars>>

\* one iteration of the mode's for loop (i < count)
LoopBody ==
    /\ pc = "loop"
    /\ i < count
    /\ CASE mode = "POINTS" ->
              FaceWrite(nFaces, i, {<<x>> : x \in GetUInt(i)}, GetUIntUB(i), i + 1, "loop")
         [] mode = "LINES" ->
              FaceWrite(nFaces, i \div 2, Pairs(GetUInt(i), GetUInt(i + 1)),
                        GetUIntUB(i) \cup GetUIntUB(i + 1), i + 2, "loop")
         [] mode \in {"LINE_LOOP", "LINE_STRIP"} ->
              FaceWrite(nFaces, i - 1, Pairs(FaceIndex(LinePrevFace(i), 1), GetUInt(i)),
                        FaceIndexUB(LinePrevFace(i), 1) \cup GetUIntUB(i), i + 1, "loop")
         [] mode = "TRIANGLES" ->
              FaceWrite(nFaces, i \div 3,
                        Triples(GetUInt(i), GetUInt(i + 1), GetUInt(i + 2)),
                        GetUIntUB(i) \cup GetUIntUB(i + 1) \cup GetUIntUB(i + 2),
                        i + 3, "loop")
         [] mode = "TRIANGLE_STRIP" ->
              FaceWrite(nFaces, i - 2,
                        Triples(FaceIndex(StripPrevFace(i), 1),
                                FaceIndex(StripPrevFace(i), 2), GetUInt(i)),
                        FaceIndexUB(StripPrevFace(i), 1)
                            \cup FaceIndexUB(StripPrevFace(i), 2) \cup GetUIntUB(i),
                        i + 1, "loop")
         [] mode = "TRIANGLE_FAN" ->
              FaceWrite(nFaces, i - 2,
                        Triples(FaceIndex(0, 0), FaceIndex(StripPrevFace(i), 2), GetUInt(i)),
                        FaceIndexUB(0, 0) \cup FaceIndexUB(StripPrevFace(i), 2)
                            \cup GetUIntUB(i),
                        i + 1, "loop")
    /\ UNCHANGED <<mode, indexed, data, mNumVertices, count, nFaces, warnings, notFaceVars>>

\* the loop test fails: on to the closing face of a line loop, else to the check
LoopExit ==
    /\ pc = "loop"
    /\ ~(i < count)
    /\ pc' = IF mode = "LINE_LOOP" THEN "close" ELSE "check"
    /\ UNCHANGED <<warnings, ub, faceVars, notFaceVars>>

\* if (mode == PrimitiveMode_LINE_LOOP): close the loop
CloseLoop ==
    /\ pc = "close"
    /\ FaceWrite(nFaces, U32(count - 1),
                 Pairs(FaceIndex(U32(count - 2), 1), FaceIndex(0, 0)),
                 FaceIndexUB(U32(count - 2), 1) \cup FaceIndexUB(0, 0), i, "check")
    /\ UNCHANGED <<mode, indexed, data, mNumVertices, count, nFaces, warnings, notFaceVars>>

\* if (faces): CheckValidFacesIndices and its warning (ai_assert is empty in a
\* release build)
CheckFaces ==
    /\ pc = "check"
    /\ warnings' = IF CheckValidFacesIndices(faces, mNumVertices)
                   THEN warnings
                   ELSE Append(warnings, "invalid_faces")
    /\ pc' = "done"
    /\ UNCHANGED <<ub, faceVars, notFaceVars>>

FacesNext == SwitchMode \/ LoopBody \/ LoopExit \/ CloseLoop \/ CheckFaces

SpecFaces == FacesInit /\ [][FacesNext]_vars

----------------------------------------------------------------------------
(* Properties of face synthesis *)

\* the index sequence a primitive is built from and its length
InputCount == IF indexed THEN Len(data) ELSE mNumVertices
X(k) == IF indexed THEN data[k + 1] ELSE k

\* the switch statement has been left (normally, or by a fault)
SynthesisOver == pc \in {"check", "done", "fault"}

\* the faces are exactly slots 0 .. n-1, slot k holding f[k]
FacesAre(n, f(_)) ==
    /\ DOMAIN faces = 0 .. n - 1
    /\ \A k \in 0 .. n - 1 : faces[k] = f(k)

\* C4: a triangle fan over x[0..count-1], count >= 3, yields exactly count-2
\* faces, face k = (x[0], x[k+1], x[k+2]), and reads only what was written
C4_FanFace(k) == <<X(0), X(k + 1), X(k + 2)>>
C4_TriangleFan ==
    (mode = "TRIANGLE_FAN" /\ InputCount >= 3 /\ SynthesisOver) =>
        /\ pc # "fault"
        /\ ub = {}
        /\ nFaces = InputCount - 2
        /\ FacesAre(InputCount - 2, C4_FanFace)

\* C5: a triangle strip over x[0..count-1], count >= 3, yields exactly count-2
\* faces, face 0 = (x[0], x[1], x[2]), face k >= 1 = (second and third index of
\* face k-1, x[k+2]), and reads only faces that were written
C5_TriangleStrip ==
    (mode = "TRIANGLE_STRIP" /\ InputCount >= 3 /\ SynthesisOver) =>
        /\ pc # "fault"
        /\ ub = {}
        /\ nFaces = InputCount - 2
        /\ DOMAIN faces = 0 .. InputCount - 3
        /\ faces[0] = <<X(0), X(1), X(2)>>
        /\ \A k \in 1 .. InputCount - 3 :
              faces[k] = <<faces[k - 1][2], faces[k - 1][3], X(k + 2)>>

\* C6: over x[0..count-1], count >= 2, a line strip yields exactly count-1
\* faces, face k = (x[k], x[k+1]); a line loop yields those and the closing
\* face (x[count-1], x[0]), count faces in all
C6_LineFace(k) == <<X(k), X((k + 1) % InputCount)>>
C6_LineStripLoop ==
    (mode \in {"LINE_STRIP", "LINE_LOOP"} /\ InputCount >= 2) =>
        /\ pc # "fault"
        /\ ub = {}
        /\ pc \in {"check", "done"} =>
              /\ nFaces = (IF mode = "LINE_STRIP" THEN InputCount - 1 ELSE InputCount)
              /\ FacesAre(nFaces, C6_LineFace)

C6_Witness ==
    /\ mode = "LINE_LOOP" /\ indexed /\ data = <<0, 1, 2>> /\ pc = "done"
    /\ nFaces = 3
    /\ faces[0] = <<0, 1>> /\ faces[1] = <<1, 2>> /\ faces[2] = <<2, 0>>

\* C7: points yields one face (x[k]) per index; lines yields floor(count/2)
\* faces (x[2k], x[2k+1]) and triangles floor(count/3) faces
\* (x[3k], x[3k+1], x[3k+2]); the trailing remainder is in no face, synthesis
\* logs exactly one warning when there is a remainder and none otherwise, and no
\* position >= count of the index buffer is read
C7_PointFace(k) == <<X(k)>>
C7_LineFace(k) == <<X(2 * k), X(2 * k + 1)>>
C7_TriangleFace(k) == <<X(3 * k), X(3 * k + 1), X(3 * k + 2)>>
C7_Arity == CASE mode = "POINTS" -> 1 [] mode = "LINES" -> 2 [] OTHER -> 3
C7_IsDrop(w) == w = DropWarning
C7_PointsLinesTriangles ==
    (mode \in {"POINTS", "LINES", "TRIANGLES"}) =>
        /\ pc # "fault"
        /\ ub = {}
        /\ pc \in {"check", "done"} =>
              /\ nFaces = InputCount \div C7_Arity
              /\ CASE mode = "POINTS" -> FacesAre(nFaces, C7_PointFace)
                   [] mode = "LINES" -> FacesAre(nFaces, C7_LineFace)
                   [] OTHER -> FacesAre(nFaces, C7_TriangleFace)
              /\ SelectSeq(warnings, C7_IsDrop) =
                    (IF InputCount % C7_Arity # 0 THEN <<DropWarning>> ELSE <<>>)
        /\ pc = "check" => Len(warnings) = (IF InputCount % C7_Arity # 0 THEN 1 ELSE 0)

C7_Witness ==
    /\ mode = "LINES" /\ indexed /\ data = <<0, 1, 2>> /\ pc = "done"
    /\ DOMAIN faces = {0} /\ faces[0] = <<0, 1>>
    /\ warnings = <<DropWarning>>

----------------------------------------------------------------------------
(* glTFImporter::ImportEmbeddedTextures and glTFImporter::ImportMaterials *)

Digits == <<"0", "1", "2", "3", "4", "5", "6", "7", "8", "9">>

\* ASSIMP_itoa10 for a number >= 0: its decimal digits, most significant first
RECURSIVE Itoa10(_)
Itoa10(n) == IF n < 10 THEN <<Digits[n + 1]>> ELSE Itoa10(n \div 10) \o <<Digits[(n % 10) + 1]>>

\* strings of the asset: the uri of image k and the id of material k
ImageUri(k) == <<"i", "m", "g">> \o Itoa10(k)
MaterialId(k) == <<"m", "a", "t">> \o Itoa10(k)

NotEmbedded == -1

\* a texture property of a material: a constant colour, a texture without a
\* source image, or a texture whose source is image src (0-based)
TexProperties(nImages) ==
    {[kind |-> "color"], [kind |-> "texture_nosource"]}
        \cup {[kind |-> "texture", source |-> k] : k \in 0 .. nImages - 1}

Channels == <<"ambient", "diffuse", "specular", "emission">>

\* the materials of the model: constant colours, but for one channel that may be
\* textured
MaterialsOf(nImages) ==
    LET plain == [id |-> <<>>, ambient |-> [kind |-> "color"], diffuse |-> [kind |-> "color"],
                  specular |-> [kind |-> "color"], emission |-> [kind |-> "color"],
                  doubleSided |-> FALSE, transparent |-> FALSE, transparency |-> 1,
                  shininess |-> 0]
    IN  {[plain EXCEPT ![Channels[c]] = prop] : c \in 1 .. 4, prop \in TexProperties(nImages)}

MaterialsInit ==
    /\ images \in {[k \in 1 .. Len(d) |-> [data |-> d[k], uri |-> ImageUri(k - 1)]] :
                     d \in SeqsUpTo(BOOLEAN, MaxImages)}
    /\ materials \in {[k \in 1 .. Len(ms) |-> [ms[k] EXCEPT !.id = MaterialId(k - 1)]] :
                        ms \in SeqsUpTo(MaterialsOf(Len(images)), MaxMaterials)}
    /\ embeddedTexIdxs = <<>>
    /\ mTextures = <<>>
    /\ mMaterials = <<>>
    /\ pc = "ImportEmbeddedTextures"
    /\ warnings = <<>>
    /\ ub = {}
    /\ FacesIdle /\ UVIdle
    /\ SceneIdle
    /\ AseIdle

RECURSIVE EmbedByPosition(_, _, _)
EmbedByPosition(k, idxs, n) ==
    IF k > Len(images) THEN idxs
    ELSE IF ~images[k].data THEN EmbedByPosition(k + 1, idxs, n)
    ELSE EmbedByPosition(k + 1, [idxs EXCEPT ![k] = k - 1], n + 1)

\* the second loop of ImportEmbeddedTextures over images k .. end (1-based):
\* the index table so far and the number of textures so far
RECURSIVE EmbedFrom(_, _, _)
EmbedFrom(k, idxs, n) ==
    IF k > Len(images) THEN idxs
    ELSE IF ~images[k].data THEN EmbedFrom(k + 1, idxs, n)
    ELSE EmbedFrom(k + 1, [idxs EXCEPT ![k] = n], n + 1)

ImportEmbeddedTextures ==
    /\ pc = "ImportEmbeddedTextures"
    /\ LET cleared == [k \in 1 .. Len(images) |-> NotEmbedded]
           idxs == EmbedFrom(1, cleared, 0)
           embedded == SelectSeq([k \in 1 .. Len(images) |-> k],
                                 LAMBDA k : images[k].data)
       IN  /\ embeddedTexIdxs' = idxs
           /\ mTextures' = [t \in 1 .. Len(embedded) |->
                               [mFilename |-> images[embedded[t]].uri, mHeight |-> 0]]
    /\ pc' = AfterCall("ImportEmbeddedTextures")
    /\ UNCHANGED <<warnings, ub, notMatVars, images, materials, mMaterials>>

\* SetMaterialColorProperty: the properties it adds to the material
SetMaterialColorProperty(idxs, prop, channel) ==
    CASE prop.kind = "texture" ->
            LET texIdx == idxs[prop.source + 1]
                uri == IF texIdx # NotEmbedded
                       THEN <<"*">> \o Itoa10(texIdx)
                       ELSE images[prop.source + 1].uri
            IN  <<[key |-> "$tex.file", channel |-> channel, value |-> uri]>>
      [] prop.kind = "texture_nosource" -> <<>>
      [] OTHER -> <<[key |-> "$clr", channel |-> channel, value |-> <<>>]>>

\* the body of the loop of ImportMaterials: the aiMaterial made of one material
ImportMaterial(idxs, mat) ==
    <<[key |-> "?mat.name", channel |-> "", value |-> mat.id]>>
        \o SetMaterialColorProperty(idxs, mat.ambient, "ambient")
        \o SetMaterialColorProperty(idxs, mat.diffuse, "diffuse")
        \o SetMaterialColorProperty(idxs, mat.specular, "specular")
        \o SetMaterialColorProperty(idxs, mat.emission, "emission")
        \o <<[key |-> "$mat.twosided", channel |-> "", value |-> mat.doubleSided]>>
        \o (IF mat.transparent /\ mat.transparency # 1
            THEN <<[key |-> "$mat.opacity", channel |-> "", value |-> mat.transparency]>>
            ELSE <<>>)
        \o (IF mat.shininess > 0
            THEN <<[key |-> "$mat.shininess", channel |-> "", value |-> mat.shininess]>>
            ELSE <<>>)

\* new aiMaterial(): no property at all
DefaultMaterial == <<>>

NoDefaultMaterial(ms) == ms

\* if (mScene->mNumMaterials == 0): one default material
DefaultIfNone(ms) == IF Len(ms) = 0 THEN <<DefaultMaterial>> ELSE ms

ImportMaterials ==
    /\ pc = "ImportMaterials"
    /\ mMaterials' = DefaultIfNone([k \in 1 .. Len(materials) |->
                                       ImportMaterial(embeddedTexIdxs, materials[k])])
    /\ pc' = AfterCall("ImportMaterials")
    /\ UNCHANGED <<warnings, ub, notMatVars, images, materials, embeddedTexIdxs, mTextures>>

MaterialsNext == ImportEmbeddedTextures \/ ImportMaterials

SpecMaterials == MaterialsInit /\ [][MaterialsNext]_vars

\* the ?mat.name property of an output material, <<>> when it has none
NameOf(m) ==
    LET named == SelectSeq(m, LAMBDA q : q.key = "?mat.name")
    IN  IF Len(named) = 0 THEN <<>> ELSE named[1].value

\* C8: after material import the output has at least one material: the N >= 1
\* materials of the asset in source order, or exactly one default placeholder
\* when the asset declares none
C8_MaterialCount ==
    Returned("ImportMaterials") =>
        /\ Len(mMaterials) >= 1
        /\ Len(materials) >= 1 =>
              /\ Len(mMaterials) = Len(materials)
              /\ \A k \in 1 .. Len(materials) :
                    /\ NameOf(mMaterials[k]) = materials[k].id
                    /\ Len(SelectSeq(mMaterials[k], LAMBDA q : q.key = "?mat.name")) = 1
        /\ Len(materials) = 0 => mMaterials = <<DefaultMaterial>>

C8_WitnessNone == Returned("ImportMaterials") /\ Len(materials) = 0 /\ Len(mMaterials) = 1

\* the number of images with inline data before image k (1-based)
DataBefore(k) == Cardinality({j \in 1 .. k - 1 : images[j].data})

\* the texture file properties that an output material has for a channel
TexFileOf(m, channel) ==
    SelectSeq(m, LAMBDA q : q.key = "$tex.file" /\ q.channel = channel)

\* C11: the images with inline data get the texture slots 0, 1, 2, ... in image
\* order and the others the sentinel; a texture channel stores "*" and the
\* decimal digits of the slot when its image is embedded, and the path of the
\* image when it is not
C11_EmbeddedSigil ==
    /\ Returned("ImportEmbeddedTextures") =>
          /\ Len(embeddedTexIdxs) = Len(images)
          /\ Len(mTextures) = DataBefore(Len(images) + 1)
          /\ \A k \in 1 .. Len(images) :
                embeddedTexIdxs[k] = IF images[k].data THEN DataBefore(k) ELSE NotEmbedded
    /\ Returned("ImportMaterials") =>
          \A k \in 1 .. Len(materials), c \in 1 .. 4 :
             LET prop == materials[k][Channels[c]]
                 img == images[prop.source + 1]
             IN  prop.kind = "texture" =>
                    TexFileOf(mMaterials[k], Channels[c]) =
                        <<[key |-> "$tex.file", channel |-> Channels[c],
                           value |-> IF img.data THEN <<"*", Digits[DataBefore(prop.source + 1) + 1]>>
                                     ELSE img.uri]>>

\* three images, the second without data: the third has slot 1; with data in all
\* three the material that references the third stores "*2"
C11_Witness ==
    /\ Returned("ImportMaterials")
    /\ Len(images) = 3
    /\ embeddedTexIdxs = <<0, 1, 2>>
    /\ \E k \in 1 .. Len(materials) :
          /\ materials[k].specular = [kind |-> "texture", source |-> 2]
          /\ TexFileOf(mMaterials[k], "specular")[1].value = <<"*", "2">>

----------------------------------------------------------------------------
(* glTFImporter::ImportMeshes (the offset table) and ImportNodes / ImportNode *)

NodeId(n) == <<"n", "o", "d", "e">> \o Itoa10(n)
MeshId(n) == <<"m", "e", "s", "h">> \o Itoa10(n)

\* Nullable<T>: isPresent and value
Absent == [isPresent |-> FALSE, value |-> 0]
Present(v) == [isPresent |-> TRUE, value |-> v]
Nullables == {Absent} \cup {Present(v) : v \in 1 .. MaxComp}

PlainNode == [children |-> <<>>, meshes |-> <<>>, matrix |-> Absent,
              translation |-> Absent, scale |-> Absent, rotation |-> Absent,
              camera |-> Absent, light |-> Absent]

\* the node hierarchies of the model: the nodes' children and the scene's roots
Shapes ==
    {[children |-> <<<<>>>>, roots |-> [isSet |-> TRUE, nodes |-> <<0>>]],
     [children |-> <<<<1>>, <<>>>>, roots |-> [isSet |-> TRUE, nodes |-> <<0>>]],
     [children |-> <<<<>>, <<>>>>, roots |-> [isSet |-> TRUE, nodes |-> <<0, 1>>]],
     [children |-> <<<<>>>>, roots |-> [isSet |-> TRUE, nodes |-> <<>>]],
     [children |-> <<<<>>>>, roots |-> NoScene]}

\* node 0 of a hierarchy carries the attributes under test
NodesOf(shape, node0) ==
    [n \in 1 .. Len(shape.children) |->
        [(IF n = 1 THEN node0 ELSE PlainNode) EXCEPT !.children = shape.children[n]]]

\* aiScene::aiScene(): no flag is set in the scene the importer is given
NewSceneFlags == {}

SceneInit ==
    /\ meshPrims \in SeqsUpTo(0 .. MaxPrims, MaxMeshes)
    /\ \E shape \in Shapes :
          /\ sceneNodes = shape.roots
          /\ \/ \E refs \in SeqsUpTo(0 .. Len(meshPrims) - 1, MaxRefs) :
                   /\ Len(shape.children) = 1
                   /\ nodes = NodesOf(shape, [PlainNode EXCEPT !.meshes = refs])
             \/ \E mx \in Nullables, t \in Nullables, sc \in Nullables, r \in Nullables :
                   /\ meshPrims = <<>>
                   /\ nodes = NodesOf(shape, [PlainNode EXCEPT !.matrix = mx,
                                                 !.translation = t, !.scale = sc,
                                                 !.rotation = r])
    /\ meshOffsets = <<>>
    /\ meshM = 0
    /\ meshK = 0
    /\ mMeshes = <<>>
    /\ outNodes = EmptyMap
    /\ mRootNode = Null
    /\ cameras = 0 /\ lights = 0 /\ assetInfo = {}
    /\ mCameras = Null /\ mLights = Null /\ mMetaData = Null
    /\ mFlags = NewSceneFlags
    /\ pc = "ImportMeshes"
    /\ warnings = <<>>
    /\ ub = {}
    /\ FacesIdle /\ UVIdle
    /\ MaterialsIdle
    /\ AseIdle

OffsetAfter(kBefore, prims) == kBefore + prims

\* meshOffsets.push_back(k), before k += mesh.primitives.size()
OffsetOf(kBefore, prims) == kBefore

\* aim->mName: the mesh id, followed by '-' and the primitive's number when the
\* mesh has several primitives
MeshName(srcMesh, p) ==
    IF meshPrims[srcMesh + 1] > 1 THEN MeshId(srcMesh) \o <<"-">> \o Itoa10(p)
    ELSE MeshId(srcMesh)

\* one iteration of the loop over r.meshes (the faces of a primitive are the
\* subject of SpecFaces)
ImportMesh ==
    /\ pc = "ImportMeshes"
    /\ meshM < Len(meshPrims)
    /\ LET prims == meshPrims[meshM + 1]
       IN  /\ meshOffsets' = Append(meshOffsets, OffsetOf(meshK, prims))
           /\ meshK' = meshK + prims
           /\ mMeshes' = mMeshes \o [p \in 1 .. prims |->
                                        [mesh |-> meshM, primitive |-> p - 1,
                                         mName |-> MeshName(meshM, p - 1)]]
    /\ meshM' = meshM + 1
    /\ UNCHANGED <<pc, warnings, ub, notSceneVars, meshPrims, nodes, sceneNodes,
                   outNodes, mRootNode, auxVars>>

\* after the loop: the final offset
ImportMeshesEnd ==
    /\ pc = "ImportMeshes"
    /\ ~(meshM < Len(meshPrims))
    /\ meshOffsets' = Append(meshOffsets, meshK)
    /\ pc' = AfterCall("ImportMeshes")
    /\ UNCHANGED <<warnings, ub, notSceneVars, meshPrims, nodes, sceneNodes, meshM, meshK,
                   mMeshes, outNodes, mRootNode, auxVars>>

\* 4x4 matrices: a product is the sequence of its factors, the identity the
\* empty product
Identity == <<>>
MulRight(a, b) == b \o a
Mul(a, b) == a \o b
Factor(kind, v) == <<[kind |-> kind, value |-> v]>>

UseMatrixUnlessComponents(node) ==
    node.matrix.isPresent /\ ~node.translation.isPresent

\* if (node.matrix.isPresent)
UseMatrix(node) == node.matrix.isPresent

\* ainode->mTransformation
NodeTransformation(node) ==
    IF UseMatrix(node) THEN Factor("matrix", node.matrix.value)
    ELSE LET m0 == Identity
             m1 == IF node.translation.isPresent
                   THEN Mul(Factor("translation", node.translation.value), m0) ELSE m0
             m2 == IF node.scale.isPresent
                   THEN Mul(Factor("scale", node.scale.value), m1) ELSE m1
             m3 == IF node.rotation.isPresent
                   THEN Mul(Factor("rotation", node.rotation.value), m2) ELSE m2
         IN  m3

\* first loop over node.meshes: count
RECURSIVE NodeMeshCount(_, _)
NodeMeshCount(refs, offsets) ==
    IF refs = <<>> THEN 0
    ELSE (offsets[refs[1] + 2] - offsets[refs[1] + 1]) + NodeMeshCount(Tail(refs), offsets)

\* second loop over node.meshes: ainode->mMeshes[k] = j
RECURSIVE NodeMeshes(_, _)
NodeMeshes(refs, offsets) ==
    IF refs = <<>> THEN <<>>
    ELSE LET lo == offsets[refs[1] + 1]
             hi == offsets[refs[1] + 2]
         IN  [j \in 1 .. hi - lo |-> lo + j - 1] \o NodeMeshes(Tail(refs), offsets)

\* ImportNode: the aiNode objects of the subtree of source node n, keyed by source
\* node; the children are imported first, in order, and then given their parent
RECURSIVE ImportNode(_, _)
ImportNode(n, offsets) ==
    LET node == nodes[n + 1]
        ImportChildren[c \in 0 .. Len(node.children)] ==
            IF c = 0 THEN EmptyMap
            ELSE LET child == node.children[c]
                     sub == ImportNode(child, offsets)
                 IN  ImportChildren[c - 1] @@ [sub EXCEPT ![child].mParent = Ptr(n)]
        ainode == [mName |-> NodeId(n),
                   mParent |-> Null,
                   mChildren |-> node.children,
                   mTransformation |-> NodeTransformation(node),
                   mNumMeshes |-> NodeMeshCount(node.meshes, offsets),
                   mMeshes |-> NodeMeshes(node.meshes, offsets)]
    IN  ImportChildren[Len(node.children)] @@ (n :> ainode)

\* the source nodes in the order in which the calls of ImportNode for the subtree
\* of n come to their end: the children's subtrees first, in order, then n
RECURSIVE ImportOrder(_)
ImportOrder(n) ==
    LET node == nodes[n + 1]
        Children[c \in 0 .. Len(node.children)] ==
            IF c = 0 THEN <<>> ELSE Children[c - 1] \o ImportOrder(node.children[c])
    IN  Children[Len(node.children)] \o <<n>>

\* the calls of ImportNode that ImportNodes makes, in that order
ImportedNodes ==
    LET rootNodes == sceneNodes.nodes
        Roots[c \in 0 .. Len(rootNodes)] ==
            IF c = 0 THEN <<>> ELSE Roots[c - 1] \o ImportOrder(rootNodes[c])
    IN  IF sceneNodes.isSet THEN Roots[Len(rootNodes)] ELSE <<>>

\* if (node.camera) pScene->mCameras[node.camera.GetIndex()]->mName = ainode->mName;
\* and the same for node.light: the array after the calls for the nodes of order
RECURSIVE BindNames(_, _, _)
BindNames(array, order, attr) ==
    IF order = <<>> THEN array
    ELSE LET n == Head(order)
             ref == nodes[n + 1][attr]
         IN  BindNames(IF ref.isPresent /\ array # Null
                       THEN [array EXCEPT ![ref.value + 1].mName = NodeId(n)]
                       ELSE array,
                       Tail(order), attr)

\* a node dereferences an array that is still the null pointer
NullArrayRead(array, order, attr) ==
    array = Null /\ \E k \in 1 .. Len(order) : nodes[order[k] + 1][attr].isPresent

\* the key of the root the importer makes up: one past the source nodes
Root == Len(nodes)

ImportNodes ==
    /\ pc = "ImportNodes"
    /\ LET rootNodes == sceneNodes.nodes
           numRootNodes == Len(rootNodes)
       IN  \/ /\ ~sceneNodes.isSet
              /\ UNCHANGED <<outNodes, mRootNode>>
           \/ /\ sceneNodes.isSet
              /\ numRootNodes = 0
              /\ UNCHANGED <<outNodes, mRootNode>>
           \/ /\ sceneNodes.isSet
              /\ numRootNodes = 1
              /\ outNodes' = ImportNode(rootNodes[1], meshOffsets)
              /\ mRootNode' = Ptr(rootNodes[1])
           \/ /\ sceneNodes.isSet
              /\ numRootNodes > 1
              /\ LET ImportRoots[c \in 0 .. numRootNodes] ==
                         IF c = 0 THEN EmptyMap
                         ELSE LET sub == ImportNode(rootNodes[c], meshOffsets)
                              IN  ImportRoots[c - 1]
                                      @@ [sub EXCEPT ![rootNodes[c]].mParent = Ptr(Root)]
                     root == [mName |-> <<"R", "O", "O", "T">>,
                              mParent |-> Null,
                              mChildren |-> rootNodes,
                              mTransformation |-> Identity,
                              mNumMeshes |-> 0,
                              mMeshes |-> <<>>]
                 IN  outNodes' = ImportRoots[numRootNodes] @@ (Root :> root)
              /\ mRootNode' = Ptr(Root)
    /\ mCameras' = BindNames(mCameras, ImportedNodes, "camera")
    /\ mLights' = BindNames(mLights, ImportedNodes, "light")
    /\ ub' = ub \cup (IF NullArrayRead(mCameras, ImportedNodes, "camera")
                      THEN {"null mCameras"} ELSE {})
                 \cup (IF NullArrayRead(mLights, ImportedNodes, "light")
                      THEN {"null mLights"} ELSE {})
    /\ pc' = AfterCall("ImportNodes")
    /\ UNCHANGED <<warnings, notSceneVars, meshPrims, nodes, sceneNodes,
                   meshOffsets, meshM, meshK, mMeshes, cameras, lights, assetInfo,
                   mMetaData, mFlags>>

\* ImportCameras: the array of r.cameras.Size() cameras, none when there is no camera
ImportCameras ==
    /\ pc = "ImportCameras"
    /\ mCameras' = IF cameras = 0 THEN mCameras
                   ELSE [c \in 1 .. cameras |-> [mName |-> <<>>]]
    /\ pc' = AfterCall("ImportCameras")
    /\ UNCHANGED <<warnings, ub, notSceneVars, meshPrims, nodes, sceneNodes, meshOffsets,
                   meshM, meshK, mMeshes, outNodes, mRootNode, cameras, lights,
                   assetInfo, mLights, mMetaData, mFlags>>

\* ImportLights: the array of r.lights.Size() lights, none when there is no light
ImportLights ==
    /\ pc = "ImportLights"
    /\ mLights' = IF lights = 0 THEN mLights
                  ELSE [c \in 1 .. lights |-> [mName |-> <<>>]]
    /\ pc' = AfterCall("ImportLights")
    /\ UNCHANGED <<warnings, ub, notSceneVars, meshPrims, nodes, sceneNodes, meshOffsets,
                   meshM, meshK, mMeshes, outNodes, mRootNode, cameras, lights,
                   assetInfo, mCameras, mMetaData, mFlags>>

\* the keys of the metadata, in the order in which they are added
MetadataKeys == <<"version", "generator", "copyright">>

\* ImportCommonMetadata: the metadata is made when one of the three is not empty
ImportCommonMetadata ==
    /\ pc = "ImportCommonMetadata"
    /\ mMetaData' = IF assetInfo = {} THEN mMetaData
                    ELSE SelectSeq(MetadataKeys, LAMBDA key : key \in assetInfo)
    /\ pc' = AfterCall("ImportCommonMetadata")
    /\ UNCHANGED <<warnings, ub, notSceneVars, meshPrims, nodes, sceneNodes, meshOffsets,
                   meshM, meshK, mMeshes, outNodes, mRootNode, cameras, lights,
                   assetInfo, mCameras, mLights, mFlags>>

IncompleteWhenOneMesh(n) == n <= 1

\* if (pScene->mNumMeshes == 0)
NoMeshes(n) == n = 0

\* the end of InternReadFile: pScene->mFlags |= AI_SCENE_FLAGS_INCOMPLETE
InternReadFileEnd ==
    /\ pc = "InternReadFileEnd"
    /\ mFlags' = IF NoMeshes(Len(mMeshes))
                 THEN mFlags \cup {"AI_SCENE_FLAGS_INCOMPLETE"} ELSE mFlags
    /\ pc' = AfterCall("InternReadFileEnd")
    /\ UNCHANGED <<warnings, ub, notSceneVars, meshPrims, nodes, sceneNodes, meshOffsets,
                   meshM, meshK, mMeshes, outNodes, mRootNode, cameras, lights,
                   assetInfo, mCameras, mLights, mMetaData>>

SceneNext ==
    \/ ImportMesh
    \/ ImportMeshesEnd
    \/ ImportCameras
    \/ ImportLights
    \/ ImportNodes
    \/ ImportCommonMetadata
    \/ InternReadFileEnd

SpecScene == SceneInit /\ [][SceneNext]_vars

\* the output node made from source node n, when there is one
Imported(n) == n \in DOMAIN outNodes

\* C9: a node with an explicit matrix and translation / rotation / scale
\* components gets the explicit matrix as its transform, whatever the components
C9_MatrixWins ==
    pc = "done" =>
        \A n \in 0 .. Len(nodes) - 1 :
            (Imported(n) /\ nodes[n + 1].matrix.isPresent) =>
                outNodes[n].mTransformation = Factor("matrix", nodes[n + 1].matrix.value)

C9_Witness ==
    /\ pc = "done" /\ Imported(0)
    /\ nodes[1].matrix = Present(2) /\ nodes[1].translation = Present(1)
    /\ nodes[1].rotation = Present(2) /\ nodes[1].scale = Present(1)
    /\ outNodes[0].mTransformation = Factor("matrix", 2)

\* the factor that a component of a node contributes, the identity (no factor)
\* when absent; a product is written as the sequence of its factors
FactorOf(node, kind) ==
    IF node[kind].isPresent THEN <<[kind |-> kind, value |-> node[kind].value]>> ELSE <<>>

\* C16: a node without an explicit matrix gets the transform
\* translation * scale * rotation * identity, the factors in this order from
\* left to right, an absent component being the identity factor
C16_TranslationScaleRotation ==
    pc = "done" =>
        \A n \in 0 .. Len(nodes) - 1 :
            (Imported(n) /\ ~nodes[n + 1].matrix.isPresent) =>
                outNodes[n].mTransformation =
                    FactorOf(nodes[n + 1], "translation") \o FactorOf(nodes[n + 1], "scale")
                        \o FactorOf(nodes[n + 1], "rotation")

\* C16, amended: a node without an explicit matrix gets the transform
\* rotation * scale * translation * identity, the factors in this order from
\* left to right, an absent component being the identity factor
C16_RotationScaleTranslation ==
    pc = "done" =>
        \A n \in 0 .. Len(nodes) - 1 :
            (Imported(n) /\ ~nodes[n + 1].matrix.isPresent) =>
                outNodes[n].mTransformation =
                    FactorOf(nodes[n + 1], "rotation") \o FactorOf(nodes[n + 1], "scale")
                        \o FactorOf(nodes[n + 1], "translation")

\* a node with the three components and no matrix
C16_Witness ==
    /\ pc = "done" /\ Imported(0)
    /\ ~nodes[1].matrix.isPresent
    /\ nodes[1].translation = Present(1) /\ nodes[1].rotation = Present(2)
    /\ nodes[1].scale = Present(2)
    /\ outNodes[0].mTransformation =
           <<[kind |-> "rotation", value |-> 2], [kind |-> "scale", value |-> 2],
             [kind |-> "translation", value |-> 1]>>

\* number of primitives of the source meshes 0 .. n-1
RECURSIVE PrimsBefore(_)
PrimsBefore(n) == IF n = 0 THEN 0 ELSE PrimsBefore(n - 1) + meshPrims[n]

\* the output mesh indices lo .. hi-1
IndexRange(lo, hi) == [j \in 1 .. hi - lo |-> lo + j - 1]

RECURSIVE ExpandedRefs(_)
ExpandedRefs(refs) ==
    IF refs = <<>> THEN <<>>
    ELSE IndexRange(PrimsBefore(refs[1]), PrimsBefore(refs[1] + 1)) \o ExpandedRefs(Tail(refs))

\* C10: after mesh import the offset table has one entry per source mesh plus
\* one, entry i is the number of primitives of the source meshes before i, the
\* last entry is the output mesh count; a node that references source meshes
\* gets the output indices [offset[m], offset[m+1]) of each, in reference order
C10_MeshOffsets ==
    /\ pc \in {"ImportNodes", "done"} =>
          /\ Len(meshOffsets) = Len(meshPrims) + 1
          /\ \A j \in 0 .. Len(meshPrims) : meshOffsets[j + 1] = PrimsBefore(j)
          /\ meshOffsets[Len(meshOffsets)] = Len(mMeshes)
          /\ \A j \in 0 .. Len(meshPrims) - 1 :
                \A q \in meshOffsets[j + 1] .. meshOffsets[j + 2] - 1 :
                    mMeshes[q + 1].mesh = j
    /\ pc = "done" =>
          \A n \in 0 .. Len(nodes) - 1 :
              Imported(n) =>
                  /\ outNodes[n].mMeshes = ExpandedRefs(nodes[n + 1].meshes)
                  /\ outNodes[n].mNumMeshes = Len(outNodes[n].mMeshes)

C10_Witness ==
    /\ pc = "done" /\ Imported(0)
    /\ meshPrims = <<2, 3, 3>> /\ meshOffsets = <<0, 2, 5, 8>>
    /\ nodes[1].meshes = <<2, 0>>
    /\ outNodes[0].mMeshes = <<5, 6, 7, 0, 1>>

\* the output nodes that have no parent
TreeRoots == {n \in DOMAIN outNodes : outNodes[n].mParent = Null}

\* C12: after node import the output has exactly one tree root, whatever the
\* asset declares: the declared root when there is one, and a root made up with
\* all the declared roots as its children, in declaration order and each with
\* that root as its parent, when there are several
C12_OneTreeRoot ==
    pc = "done" =>
        /\ mRootNode # Null
        /\ Cardinality(TreeRoots) = 1
        /\ Len(sceneNodes.nodes) = 1 => mRootNode = Ptr(sceneNodes.nodes[1])
        /\ Len(sceneNodes.nodes) > 1 =>
              /\ mRootNode = Ptr(Root)
              /\ outNodes[Root].mChildren = sceneNodes.nodes
              /\ \A c \in 1 .. Len(sceneNodes.nodes) :
                    outNodes[sceneNodes.nodes[c]].mParent = Ptr(Root)

----------------------------------------------------------------------------
(* glTFImporter::InternReadFile: one import call, from the loaded asset to the *)
(* scene                                                                       *)

\* the references a node may make to one of num objects
Refs(num) == {Absent} \cup {Present(c) : c \in 0 .. num - 1}

\* the nodes of a hierarchy: node 0 references every mesh, and each node has
\* the camera and the light that cams and lits give it
NodesWith(shape, nMeshes, cams, lits) ==
    [n \in 1 .. Len(shape.children) |->
        [PlainNode EXCEPT !.children = shape.children[n],
                          !.meshes = IF n = 1 THEN [r \in 1 .. nMeshes |-> r - 1] ELSE <<>>,
                          !.camera = cams[n], !.light = lits[n]]]

ImportInit ==
    /\ images \in {[k \in 1 .. Len(d) |-> [data |-> d[k], uri |-> ImageUri(k - 1)]] :
                     d \in SeqsUpTo(BOOLEAN, 1)}
    /\ materials \in {[k \in 1 .. Len(ms) |-> [ms[k] EXCEPT !.id = MaterialId(k - 1)]] :
                        ms \in SeqsUpTo({mat \in MaterialsOf(Len(images)) :
                                            mat.ambient.kind = "color"
                                            /\ mat.specular.kind = "color"
                                            /\ mat.emission.kind = "color"}, 1)}
    /\ embeddedTexIdxs = <<>>
    /\ mTextures = <<>>
    /\ mMaterials = <<>>
    /\ meshPrims \in {<<>>, <<0>>, <<1>>, <<2, 1>>}
    /\ cameras \in 0 .. MaxAux
    /\ lights \in 0 .. MaxAux
    /\ assetInfo \in {{}, {"version", "copyright"}}
    /\ \E shape \in Shapes :
          /\ sceneNodes = shape.roots
          /\ \E cams \in [1 .. Len(shape.children) -> Refs(cameras)],
                lits \in [1 .. Len(shape.children) -> Refs(lights)] :
                nodes = NodesWith(shape, Len(meshPrims), cams, lits)
    /\ meshOffsets = <<>>
    /\ meshM = 0
    /\ meshK = 0
    /\ mMeshes = <<>>
    /\ outNodes = EmptyMap
    /\ mRootNode = Null
    /\ mCameras = Null /\ mLights = Null /\ mMetaData = Null
    /\ mFlags = NewSceneFlags
    /\ pc = InternReadFile[1]
    /\ warnings = <<>>
    /\ ub = {}
    /\ FacesIdle /\ UVIdle
    /\ AseIdle

ImportNext == MaterialsNext \/ SceneNext

SpecImport == ImportInit /\ [][ImportNext]_vars

\* C14: at the end of an import the incomplete flag of the scene is set if and
\* only if the import has produced no output mesh
C14_IncompleteIffNoMeshes ==
    pc = "done" => (("AI_SCENE_FLAGS_INCOMPLETE" \in mFlags) <=> (Len(mMeshes) = 0))

\* the import of an asset with one mesh, which has no primitive, ends with the
\* flag set
C14_Witness ==
    pc = "done" /\ meshPrims = <<0>> /\ mFlags = {"AI_SCENE_FLAGS_INCOMPLETE"}

\* the source nodes that node import has made an output node of
ImportedSources == {n \in 0 .. Len(nodes) - 1 : Imported(n)}

\* the object of an array that is referenced by an imported node carries the
\* name of an imported node that references it
NamedByReferrer(array, attr) ==
    \A c \in 0 .. MaxAux :
        (\E n \in ImportedSources : nodes[n + 1][attr] = Present(c)) =>
            /\ array # Null
            /\ \E n \in ImportedSources :
                  /\ nodes[n + 1][attr] = Present(c)
                  /\ array[c + 1].mName = NodeId(n)

\* the array of num objects is there to be dereferenced
Populated(array, num) == num > 0 => (array # Null /\ Len(array) = num)

----------------------------------------------------------------------------
(* ASEParser.cpp: the scanner state and the helpers every handler shares *)

\* characters of the file. The letters of a keyword are one character of the
\* model: the handlers only ever compare a keyword as a whole
NUL == "NUL"
CR == "CR"
LF == "LF"
FF == "FF"
SP == " "
TAB == "TAB"

\* *(file + p)
At(p) == input[p + 1]


IsLineEnd(ch) == ch \in {CR, LF, NUL, FF}
IsSpace(ch) == ch \in {SP, TAB}
IsSpaceOrNewLine(ch) == IsSpace(ch) \/ IsLineEnd(ch)
IsNumeric(ch) == \E d \in 1 .. 10 : Digits[d] = ch
DigitValue(ch) == (CHOOSE d \in 1 .. 10 : Digits[d] = ch) - 1

\* the scanner state the helpers work on
PS == [mFilePtr |-> mFilePtr, iLineNumber |-> iLineNumber,
       bLastWasEndLine |-> bLastWasEndLine, lineHits |-> lineHits,
       warnings |-> warnings]

Advance(ps, n) == [ps EXCEPT !.mFilePtr = @ + n]

\* Parser::LogWarning: "Line %u: %s"
LogWarning(ps, szWarn) ==
    [ps EXCEPT !.warnings = Append(@, [line |-> ps.iLineNumber, msg |-> szWarn])]

\* ++iLineNumber
IncLine(ps) ==
    [ps EXCEPT !.iLineNumber = @ + 1, !.lineHits = Append(@, ps.mFilePtr)]

\* if (IsLineEnd(*mFilePtr) && !bLastWasEndLine) { ++iLineNumber; bLastWasEndLine = true; }
\* else bLastWasEndLine = false;
CountLineEnd(ps) ==
    IF IsLineEnd(At(ps.mFilePtr)) /\ ~ps.bLastWasEndLine
    THEN [IncLine(ps) EXCEPT !.bLastWasEndLine = TRUE]
    ELSE [ps EXCEPT !.bLastWasEndLine = FALSE]

RECURSIVE SkipToNextToken(_)
SkipToNextToken(ps) ==
    LET me == At(ps.mFilePtr)
    IN  IF ps.mFilePtr = mEnd THEN ps
        ELSE LET counted == CountLineEnd(ps)
             IN  IF me \in {"*", "}", "{"} THEN counted
                 ELSE IF me = NUL THEN counted
                 ELSE SkipToNextToken(Advance(counted, 1))

EofWarning == "Unable to parse block: Unexpected EOF, closing bracket '}' was expected [#1]"

RECURSIVE SkipToFirstClosingBrace(_, _)
SkipToFirstClosingBrace(ps, iCnt) ==
    LET ch == At(ps.mFilePtr)
    IN  IF ch = "}"
        THEN [ps |-> SkipToNextToken(Advance(ps, 1)), result |-> TRUE]
        ELSE IF ch = "{" THEN SkipToFirstClosingBrace(Advance(ps, 1), iCnt + 1)
        ELSE IF ch = NUL THEN [ps |-> LogWarning(ps, EofWarning), result |-> FALSE]
        ELSE IF IsLineEnd(ch) THEN SkipToFirstClosingBrace(Advance(IncLine(ps), 1), iCnt)
        ELSE SkipToFirstClosingBrace(Advance(ps, 1), iCnt)

\* the loop of Parser::SkipSection, iCnt being its local counter: the scanner
\* state at the return, and the value returned
RECURSIVE SkipSectionLoop(_, _)
SkipSectionLoop(ps, iCnt) ==
    LET ch == At(ps.mFilePtr)
    IN  IF ch = "}"
        THEN IF iCnt - 1 = 0
             THEN [ps |-> SkipToNextToken(Advance(ps, 1)), result |-> TRUE]
             ELSE SkipSectionLoop(Advance(ps, 1), iCnt - 1)
        ELSE IF ch = "{" THEN SkipSectionLoop(Advance(ps, 1), iCnt + 1)
        ELSE IF ch = NUL THEN [ps |-> LogWarning(ps, EofWarning), result |-> FALSE]
        ELSE IF IsLineEnd(ch) THEN SkipSectionLoop(Advance(IncLine(ps), 1), iCnt)
        ELSE SkipSectionLoop(Advance(ps, 1), iCnt)

\* SkipSection(), the calls that drop the value it returns
SkipSection(ps) == SkipSectionLoop(ps, 0).ps

\* TokenMatch(mFilePtr, token, len): the token is there and white space or a
\* line end follows it
TokenMatches(ps, token) ==
    At(ps.mFilePtr) = token /\ IsSpaceOrNewLine(At(ps.mFilePtr + 1))

\* ... and then the token and the character after it are consumed, the
\* terminating zero excepted
TokenMatch(ps, token) ==
    IF At(ps.mFilePtr + 1) # NUL THEN Advance(ps, 2) ELSE Advance(ps, 1)

\* SkipSpaces(&mFilePtr, mEnd): the cursor after the spaces and tabs; the call
\* returns false when a line end follows them
RECURSIVE SkipSpaces(_)
SkipSpaces(ps) ==
    IF IsSpace(At(ps.mFilePtr)) /\ ps.mFilePtr # mEnd THEN SkipSpaces(Advance(ps, 1))
    ELSE ps

SkipSpacesResult(ps) == ~IsLineEnd(At(SkipSpaces(ps).mFilePtr))

\* strtoul10(mFilePtr, &mFilePtr): the digits at the cursor, consumed
RECURSIVE strtoul10(_, _)
strtoul10(ps, value) ==
    IF IsNumeric(At(ps.mFilePtr))
    THEN strtoul10(Advance(ps, 1), U32((value * 10) + DigitValue(At(ps.mFilePtr))))
    ELSE [ps |-> ps, value |-> value]

LongWarning == "Unable to parse long: unexpected EOL [#1]"

ParseLV4MeshLong(ps) ==
    IF ~SkipSpacesResult(ps)
    THEN [ps |-> IncLine(LogWarning(SkipSpaces(ps), LongWarning)), value |-> 0]
    ELSE strtoul10(SkipSpaces(ps), 0)

QUOTE == "QUOTE"

\* Parser::ParseString(out, szName)
RECURSIVE ClosingQuote(_)
ClosingQuote(sz) == IF At(sz) \in {QUOTE, NUL} THEN sz ELSE ClosingQuote(sz + 1)

ParseString(ps, szName) ==
    LET p1 == SkipSpaces(ps)
        sz == ClosingQuote(p1.mFilePtr + 1)
    IN  IF ~SkipSpacesResult(ps)
        THEN [ps |-> LogWarning(p1, "Unable to parse " \o szName \o " block: Unexpected EOL"),
              ok |-> FALSE, out |-> <<>>]
        ELSE IF At(p1.mFilePtr) # QUOTE
        THEN [ps |-> LogWarning(p1, "Unable to parse " \o szName
                                        \o " block: Strings are expected to be enclosed in double quotation marks"),
              ok |-> FALSE, out |-> <<>>]
        ELSE IF At(sz) = NUL
        THEN [ps |-> LogWarning(Advance(p1, 1),
                                "Unable to parse " \o szName
                                    \o " block: Strings are expected to be enclosed in double quotation marks but EOF was reached before a closing quotation mark was encountered"),
              ok |-> FALSE, out |-> <<>>]
        ELSE [ps |-> [p1 EXCEPT !.mFilePtr = sz + 1], ok |-> TRUE,
              out |-> SubSeq(input, p1.mFilePtr + 2, sz)]

----------------------------------------------------------------------------
(* ASEParser.cpp: the handlers. One step of the model is one iteration of the *)
(* while (true) loop of the innermost running handler.                        *)

\* a running handler: AI_ASE_PARSER_INIT sets iDepth; iNum, iOld and mType hold
\* the handler's parameters, and the counters are the locals of the mesh, mapping
\* channel, weights and material blocks; path tells which material the parameter
\* mat of a material block refers to: the index in m_vMaterials, then the index
\* in avSubMaterials at each level of nesting; mSubType is the mCameraType or
\* mLightType of the node, and anim names the channel set that the pointer or
\* reference anim of an animation handler refers to
Frame(fn) ==
    [fn |-> fn, iDepth |-> 0, iNum |-> 0, iOld |-> 0, mType |-> "None",
     iNumVertices |-> 0, iNumFaces |-> 0, iNumTVertices |-> 0, iNumTFaces |-> 0,
     iNumCVertices |-> 0, iNumCFaces |-> 0, iNumBones |-> 0,
     iNumSubMaterials |-> 0, path |-> <<>>, mSubType |-> "None", anim |-> "nullptr"]

\* what an iteration comes to: the scanner state, the handler's frame, and how
\* the iteration ends: "continue", "call" (callee is the handler called, and the
\* loop continues after it), "return", or "throw" (error is the message)
Result(ps, top, exit) ==
    [ps |-> ps, top |-> top, exit |-> exit, callee |-> <<>>, error |-> <<>>,
     m_vMaterials |-> m_vMaterials, m_vMeshes |-> m_vMeshes, mesh |-> mesh, ub |-> ub]

Continue(ps, top) == Result(ps, top, "continue")
Return(ps, top) == Result(ps, top, "return")
Call(ps, top, callee) == [Result(ps, top, "call") EXCEPT !.callee = callee]

\* Parser::LogError: "Line %u: %s", thrown as DeadlyImportError
LogError(ps, top, szWarn) ==
    [Result(ps, top, "throw") EXCEPT !.error = <<[line |-> ps.iLineNumber, msg |-> szWarn]>>]

\* the closing brace that brings iDepth to 0: ++mFilePtr; SkipToNextToken(); return
SectionEnd(ps, top) == Return(SkipToNextToken(Advance(ps, 1)), top)

\* the end of both macros: count the line end, ++mFilePtr
NextChar(ps, top) == Continue(Advance(CountLineEnd(ps), 1), top)

\* AI_ASE_HANDLE_TOP_LEVEL_SECTION. It starts with "else if", the else of the
\* handler's if ('*' == *mFilePtr): the braces are not looked at when that
\* branch was taken (star)
HandleTopLevelSection(ps, top, star) ==
    LET ch == At(ps.mFilePtr)
        opened == [top EXCEPT !.iDepth = @ + 1]
        closed == [top EXCEPT !.iDepth = @ - 1]
    IN  IF ~star /\ ch = "{" THEN NextChar(ps, opened)
        ELSE IF ~star /\ ch = "}"
        THEN IF closed.iDepth = 0 THEN SectionEnd(ps, closed) ELSE NextChar(ps, closed)
        ELSE IF ch = NUL THEN Return(ps, top)
        ELSE NextChar(ps, top)

SectionEofReturns(ps, top, level, msg) == Return(ps, top)

\* AI_ASE_HANDLE_SECTION at the terminating zero
SectionEof(ps, top, level, msg) ==
    LogError(ps, top, <<"Encountered unexpected EOL while parsing a ", msg,
                        " chunk (Level ", level, ")">>)

\* AI_ASE_HANDLE_SECTION(level, msg)
HandleSection(ps, top, level, msg) ==
    LET ch == At(ps.mFilePtr)
        opened == [top EXCEPT !.iDepth = @ + 1]
        closed == [top EXCEPT !.iDepth = @ - 1]
    IN  IF ch = "{" THEN NextChar(ps, opened)
        ELSE IF ch = "}"
        THEN IF closed.iDepth = 0 THEN SectionEnd(ps, closed) ELSE NextChar(ps, closed)
        ELSE IF ch = NUL THEN SectionEof(ps, top, level, msg)
        ELSE NextChar(ps, top)

\* std::vector::resize(n, value)
Resize(vec, n, value) == [j \in 1 .. n |-> IF j <= Len(vec) THEN vec[j] ELSE value]

\* the state after an iteration
Commit(r) ==
    /\ mFilePtr' = r.ps.mFilePtr
    /\ iLineNumber' = r.ps.iLineNumber
    /\ bLastWasEndLine' = r.ps.bLastWasEndLine
    /\ lineHits' = r.ps.lineHits
    /\ warnings' = r.ps.warnings
    /\ m_vMaterials' = r.m_vMaterials
    /\ m_vMeshes' = r.m_vMeshes
    /\ mesh' = r.mesh
    /\ fatal' = r.error
    /\ ub' = r.ub
    /\ stack' = CASE r.exit = "continue" -> <<r.top>> \o Tail(stack)
                  [] r.exit = "call" -> <<r.callee, r.top>> \o Tail(stack)
                  [] r.exit = "return" -> Tail(stack)
                  [] r.exit = "throw" -> <<r.top>> \o Tail(stack)
    /\ pc' = CASE r.exit = "throw" -> "failed"
               [] r.exit = "return" /\ Len(stack) = 1 -> "done"
               [] OTHER -> "parse"
    /\ UNCHANGED <<input, mEnd, notAseVars>>

\* the innermost running handler
Running(fn) == pc = "parse" /\ Len(stack) > 0 /\ Head(stack).fn = fn

\* the handlers of the model and the level of each; the keywords of a handler's
\* table that the files of the model do not use are left out of it
TopLevelHandlers ==
    {"Parse", "ParseLV1SceneBlock", "ParseLV1MaterialListBlock", "ParseLV1ObjectBlock"}
ListHandlers ==
    {"ParseLV3MeshVertexListBlock", "ParseLV3MeshFaceListBlock", "ParseLV3MeshTListBlock",
     "ParseLV3MeshTFaceListBlock", "ParseLV3MeshCListBlock", "ParseLV3MeshCFaceListBlock",
     "ParseLV4MeshBones"}
NestedHandlers ==
    {"ParseLV2MaterialBlock", "ParseLV2MeshBlock", "ParseLV3MappingChannel",
     "ParseLV3MeshWeightsBlock"} \cup ListHandlers

AI_MAX_NUMBER_OF_TEXTURECOORDS == 8

\* ASE::Face(): iSmoothGroup is the set of the bits that are set
DefaultMatIndex == UIntModulus - 1
DefaultFace ==
    [iFace |-> 0, mIndices |-> <<0, 0, 0>>,
     amUVIndices |-> [c \in 1 .. AI_MAX_NUMBER_OF_TEXTURECOORDS |-> <<0, 0, 0>>],
     mColorIndices |-> <<0, 0, 0>>, iSmoothGroup |-> {}, iMaterial |-> DefaultMatIndex]

\* ASE::Material(name)
Material(name) == [mName |-> <<name>>, avSubMaterials |-> <<>>]

\* the material that the parameter mat of a material block refers to, and the
\* list with that material replaced
RECURSIVE MaterialAt(_, _)
MaterialAt(mats, path) ==
    IF Len(path) = 1 THEN mats[path[1] + 1]
    ELSE MaterialAt(mats[path[1] + 1].avSubMaterials, Tail(path))

RECURSIVE SetMaterial(_, _, _)
SetMaterial(mats, path, mat) ==
    IF Len(path) = 1 THEN [mats EXCEPT ![path[1] + 1] = mat]
    ELSE [mats EXCEPT ![path[1] + 1].avSubMaterials = SetMaterial(@, Tail(path), mat)]

\* ASE::Bone(name)
Bone(name) == [mName |-> name]

\* ASE::BoneVertex(): no weights
BoneVertex == [mBoneWeights |-> <<>>]

\* ASE::Animation(): no keys
Animation == [akeyPositions |-> <<>>, akeyRotations |-> <<>>, akeyScaling |-> <<>>]

\* ASE::Mesh(): the arrays that the list blocks fill, all empty, and the two
\* channel sets of the BaseNode
NewMesh ==
    [mPositions |-> <<>>, mFaces |-> <<>>,
     amTexCoords |-> [c \in 1 .. AI_MAX_NUMBER_OF_TEXTURECOORDS |-> <<>>],
     mNumUVComponents |-> [c \in 1 .. AI_MAX_NUMBER_OF_TEXTURECOORDS |-> 2],
     mVertexColors |-> <<>>, mBones |-> <<>>, mBoneVertices |-> <<>>,
     mAnim |-> Animation, mTargetAnim |-> Animation]

\* Parser::Parse
Parse(ps, top) ==
    IF At(ps.mFilePtr) = "*"
    THEN LET p1 == Advance(ps, 1)
         IN  IF TokenMatches(p1, "3DSMAX_ASCIIEXPORT")
             THEN LET fmt == ParseLV4MeshLong(TokenMatch(p1, "3DSMAX_ASCIIEXPORT"))
                  IN  IF fmt.value > 200
                      THEN Continue(LogWarning(fmt.ps, "Unknown file format version"), top)
                      ELSE Continue(fmt.ps, top)
             ELSE IF TokenMatches(p1, "SCENE")
             THEN Call(TokenMatch(p1, "SCENE"), top, Frame("ParseLV1SceneBlock"))
             ELSE IF TokenMatches(p1, "GROUP")
             THEN Call(TokenMatch(p1, "GROUP"), top, Frame("Parse"))
             ELSE IF TokenMatches(p1, "MATERIAL_LIST")
             THEN Call(TokenMatch(p1, "MATERIAL_LIST"), top,
                       [Frame("ParseLV1MaterialListBlock") EXCEPT !.iOld = Len(m_vMaterials)])
             ELSE IF TokenMatches(p1, "GEOMOBJECT")
             THEN [Call(TokenMatch(p1, "GEOMOBJECT"), top,
                        [Frame("ParseLV1ObjectBlock") EXCEPT !.mType = "Mesh"])
                      EXCEPT !.m_vMeshes = Append(m_vMeshes, "UNNAMED"), !.mesh = NewMesh]
             ELSE HandleTopLevelSection(p1, top, TRUE)
    ELSE HandleTopLevelSection(ps, top, FALSE)

\* Parser::ParseLV1SceneBlock
ParseLV1SceneBlock(ps, top) ==
    IF At(ps.mFilePtr) = "*"
    THEN HandleTopLevelSection(Advance(ps, 1), top, TRUE)
    ELSE HandleTopLevelSection(ps, top, FALSE)

\* the index test of a material and of a submaterial entry
MaterialIndexAbove(iIndex, iCount) == iIndex > iCount

MaterialIndexTooLarge(iIndex, iCount) == iIndex >= iCount

\* the recovery of a material list without its closing brace: the warning, and
\* the cursor stepped back onto the asterisk
MissingBraceRetried(ps, top) ==
    Continue(Advance(LogWarning(ps, "Missing closing brace in material list"), -1), top)

MissingBrace(ps, top) ==
    Return(Advance(LogWarning(ps, "Missing closing brace in material list"), -1), top)

\* Parser::ParseLV1MaterialListBlock: iNum is iMaterialCount, iOld is
\* iOldMaterialCount. m_vMaterials[i] with i outside the vector is undefined
\* behaviour: the event is recorded in ub and the block is not parsed
ParseLV1MaterialListBlock(ps, top) ==
    IF At(ps.mFilePtr) = "*"
    THEN LET p1 == Advance(ps, 1)
         IN  IF TokenMatches(p1, "MATERIAL_COUNT")
             THEN LET cnt == ParseLV4MeshLong(TokenMatch(p1, "MATERIAL_COUNT"))
                      counted == [top EXCEPT !.iNum = cnt.value]
                  IN  IF (UIntModulus - 1) - top.iOld < cnt.value
                      THEN Return(LogWarning(cnt.ps, "Out of range: material index is too large"),
                                  counted)
                      ELSE [Continue(cnt.ps, counted) EXCEPT !.m_vMaterials =
                               Resize(m_vMaterials, top.iOld + cnt.value, Material("INVALID"))]
             ELSE IF TokenMatches(p1, "MATERIAL")
             THEN LET none == top.iNum = 0
                      iMaterialCount == IF none THEN 1 ELSE top.iNum
                      p2 == IF none
                            THEN LogWarning(TokenMatch(p1, "MATERIAL"),
                                            "*MATERIAL_COUNT unspecified or 0")
                            ELSE TokenMatch(p1, "MATERIAL")
                      mats == IF none THEN Resize(m_vMaterials, top.iOld + 1, Material("INVALID"))
                              ELSE m_vMaterials
                      idx == ParseLV4MeshLong(p2)
                      tooLarge == MaterialIndexTooLarge(idx.value, iMaterialCount)
                      iIndex == IF tooLarge THEN iMaterialCount - 1 ELSE idx.value
                      p3 == IF tooLarge
                            THEN LogWarning(idx.ps, "Out of range: material index is too large")
                            ELSE idx.ps
                      counted == [top EXCEPT !.iNum = iMaterialCount]
                  IN  IF iIndex + top.iOld >= Len(mats)
                      THEN [Continue(p3, counted)
                               EXCEPT !.m_vMaterials = mats,
                                      !.ub = @ \cup {"m_vMaterials[iIndex + iOldMaterialCount] out of range"}]
                      ELSE [Call(p3, counted,
                                 [Frame("ParseLV2MaterialBlock")
                                     EXCEPT !.iNum = iIndex + top.iOld,
                                            !.path = <<iIndex + top.iOld>>])
                               EXCEPT !.m_vMaterials = mats]
             ELSE IF top.iDepth = 1
             THEN MissingBrace(p1, top)
             ELSE HandleTopLevelSection(p1, top, TRUE)
    ELSE HandleTopLevelSection(ps, top, FALSE)

\* the *SUBMATERIAL branch of ParseLV2MaterialBlock, the cursor at the token and
\* mats the materials at that point
SubMaterial(ps, top, mats) ==
    LET mat == MaterialAt(mats, top.path)
        none == top.iNumSubMaterials = 0
        iNumSubMaterials == IF none THEN 1 ELSE top.iNumSubMaterials
        p2 == IF none
              THEN LogWarning(TokenMatch(ps, "SUBMATERIAL"), "*NUMSUBMTLS unspecified or 0")
              ELSE TokenMatch(ps, "SUBMATERIAL")
        subs == IF none THEN Resize(mat.avSubMaterials, 1, Material("INVALID SUBMATERIAL"))
                ELSE mat.avSubMaterials
        idx == ParseLV4MeshLong(p2)
        tooLarge == MaterialIndexTooLarge(idx.value, iNumSubMaterials)
        iIndex == IF tooLarge THEN iNumSubMaterials - 1 ELSE idx.value
        p3 == IF tooLarge
              THEN LogWarning(idx.ps, "Out of range: submaterial index is too large")
              ELSE idx.ps
        counted == [top EXCEPT !.iNumSubMaterials = iNumSubMaterials]
        stored == SetMaterial(mats, top.path, [mat EXCEPT !.avSubMaterials = subs])
    IN  IF iIndex < Len(subs)
        THEN [Call(p3, counted,
                   [Frame("ParseLV2MaterialBlock") EXCEPT !.path = top.path \o <<iIndex>>])
                 EXCEPT !.m_vMaterials = stored]
        ELSE [Continue(p3, counted) EXCEPT !.m_vMaterials = stored]

\* Parser::ParseLV2MaterialBlock: path is the parameter mat. The *NUMSUBMTLS
\* branch has no continue: the *SUBMATERIAL test and the section macro follow
\* it at the cursor after the count
ParseLV2MaterialBlock(ps, top) ==
    IF At(ps.mFilePtr) = "*"
    THEN LET p1 == Advance(ps, 1)
             mat == MaterialAt(m_vMaterials, top.path)
             name == ParseString(TokenMatch(p1, "MATERIAL_NAME"), "*MATERIAL_NAME")
             cnt == ParseLV4MeshLong(TokenMatch(p1, "NUMSUBMTLS"))
             counted == [top EXCEPT !.iNumSubMaterials = cnt.value]
             resized ==
                 SetMaterial(m_vMaterials, top.path,
                             [mat EXCEPT !.avSubMaterials =
                                 Resize(@, cnt.value, Material("INVALID SUBMATERIAL"))])
         IN  IF TokenMatches(p1, "MATERIAL_NAME")
             THEN IF name.ok
                  THEN [Continue(name.ps, top)
                           EXCEPT !.m_vMaterials =
                               SetMaterial(m_vMaterials, top.path, [mat EXCEPT !.mName = name.out])]
                  ELSE Continue(SkipToNextToken(name.ps), top)
             ELSE IF TokenMatches(p1, "NUMSUBMTLS")
             THEN IF TokenMatches(cnt.ps, "SUBMATERIAL")
                  THEN SubMaterial(cnt.ps, counted, resized)
                  ELSE [HandleSection(cnt.ps, counted, "2", "*MATERIAL")
                           EXCEPT !.m_vMaterials = resized]
             ELSE IF TokenMatches(p1, "SUBMATERIAL")
             THEN SubMaterial(p1, top, m_vMaterials)
             ELSE HandleSection(p1, top, "2", "*MATERIAL")
    ELSE HandleSection(ps, top, "2", "*MATERIAL")

\* Parser::ParseLV1ObjectBlock: mType is node.mType
ParseLV1ObjectBlock(ps, top) ==
    IF At(ps.mFilePtr) = "*"
    THEN LET p1 == Advance(ps, 1)
         IN  IF top.mType = "Mesh" /\ TokenMatches(p1, "MESH")
             THEN Call(TokenMatch(p1, "MESH"), top, Frame("ParseLV2MeshBlock"))
             ELSE HandleTopLevelSection(p1, top, TRUE)
    ELSE HandleTopLevelSection(ps, top, FALSE)

InvalidChannel == "Mapping channel has an invalid index. Skipping UV channel"

\* the calls of the list blocks: the frame of the handler, and what the handler
\* does before its loop. iNum is the declared count, iOld is iChannel
CallVertexListBlock(ps, top, iNumVertices) ==
    [Call(ps, top, [Frame("ParseLV3MeshVertexListBlock") EXCEPT !.iNum = iNumVertices])
        EXCEPT !.mesh.mPositions = Resize(@, iNumVertices, <<0, 0, 0>>)]

CallFaceListBlock(ps, top, iNumFaces) ==
    [Call(ps, top, [Frame("ParseLV3MeshFaceListBlock") EXCEPT !.iNum = iNumFaces])
        EXCEPT !.mesh.mFaces = Resize(@, iNumFaces, DefaultFace)]

CallTListBlock(ps, top, iNumVertices, iChannel) ==
    [Call(ps, top, [Frame("ParseLV3MeshTListBlock")
                       EXCEPT !.iNum = iNumVertices, !.iOld = iChannel])
        EXCEPT !.mesh.amTexCoords[iChannel + 1] = Resize(@, iNumVertices, <<0, 0, 0>>)]

CallTFaceListBlock(ps, top, iNumFaces, iChannel) ==
    Call(ps, top, [Frame("ParseLV3MeshTFaceListBlock")
                      EXCEPT !.iNum = iNumFaces, !.iOld = iChannel])

CallCListBlock(ps, top, iNumVertices) ==
    [Call(ps, top, [Frame("ParseLV3MeshCListBlock") EXCEPT !.iNum = iNumVertices])
        EXCEPT !.mesh.mVertexColors = Resize(@, iNumVertices, <<0, 0, 0, 0>>)]

CallCFaceListBlock(ps, top, iNumFaces) ==
    Call(ps, top, [Frame("ParseLV3MeshCFaceListBlock") EXCEPT !.iNum = iNumFaces])

CallMeshBones(ps, top, iNumBones) ==
    [Call(ps, top, [Frame("ParseLV4MeshBones") EXCEPT !.iNum = iNumBones])
        EXCEPT !.mesh.mBones = Resize(@, iNumBones, Bone(<<"UNNAMED">>))]

\* the call of ParseLV4MeshBonesVertices(iNumVertices, mesh), with the resize at
\* its start
CallMeshBonesVertices(ps, top, iNumVertices) ==
    [Call(ps, top, [Frame("ParseLV4MeshBonesVertices") EXCEPT !.iNum = iNumVertices])
        EXCEPT !.mesh.mBoneVertices = Resize(@, iNumVertices, BoneVertex)]

AnimationIgnored ==
    "Found *MESH_ANIMATION element in ASE/ASK file. "
        \o "Keyframe animation is not supported by Assimp, this element "
        \o "will be ignored"

\* Parser::ParseLV2MeshBlock
ParseLV2MeshBlock(ps, top) ==
    IF At(ps.mFilePtr) = "*"
    THEN LET p1 == Advance(ps, 1)
             Long(token) == ParseLV4MeshLong(TokenMatch(p1, token))
         IN  IF TokenMatches(p1, "MESH_NUMVERTEX")
             THEN Continue(Long("MESH_NUMVERTEX").ps,
                           [top EXCEPT !.iNumVertices = Long("MESH_NUMVERTEX").value])
             ELSE IF TokenMatches(p1, "MESH_NUMTVERTEX")
             THEN Continue(Long("MESH_NUMTVERTEX").ps,
                           [top EXCEPT !.iNumTVertices = Long("MESH_NUMTVERTEX").value])
             ELSE IF TokenMatches(p1, "MESH_NUMCVERTEX")
             THEN Continue(Long("MESH_NUMCVERTEX").ps,
                           [top EXCEPT !.iNumCVertices = Long("MESH_NUMCVERTEX").value])
             ELSE IF TokenMatches(p1, "MESH_NUMFACES")
             THEN Continue(Long("MESH_NUMFACES").ps,
                           [top EXCEPT !.iNumFaces = Long("MESH_NUMFACES").value])
             ELSE IF TokenMatches(p1, "MESH_NUMTVFACES")
             THEN Continue(Long("MESH_NUMTVFACES").ps,
                           [top EXCEPT !.iNumTFaces = Long("MESH_NUMTVFACES").value])
             ELSE IF TokenMatches(p1, "MESH_NUMCVFACES")
             THEN Continue(Long("MESH_NUMCVFACES").ps,
                           [top EXCEPT !.iNumCFaces = Long("MESH_NUMCVFACES").value])
             ELSE IF TokenMatches(p1, "MESH_VERTEX_LIST")
             THEN CallVertexListBlock(TokenMatch(p1, "MESH_VERTEX_LIST"), top, top.iNumVertices)
             ELSE IF TokenMatches(p1, "MESH_FACE_LIST")
             THEN CallFaceListBlock(TokenMatch(p1, "MESH_FACE_LIST"), top, top.iNumFaces)
             ELSE IF TokenMatches(p1, "MESH_TVERTLIST")
             THEN CallTListBlock(TokenMatch(p1, "MESH_TVERTLIST"), top, top.iNumTVertices, 0)
             ELSE IF TokenMatches(p1, "MESH_TFACELIST")
             THEN CallTFaceListBlock(TokenMatch(p1, "MESH_TFACELIST"), top, top.iNumTFaces, 0)
             ELSE IF TokenMatches(p1, "MESH_CVERTLIST")
             THEN CallCListBlock(TokenMatch(p1, "MESH_CVERTLIST"), top, top.iNumCVertices)
             ELSE IF TokenMatches(p1, "MESH_CFACELIST")
             THEN CallCFaceListBlock(TokenMatch(p1, "MESH_CFACELIST"), top, top.iNumCFaces)
             ELSE IF TokenMatches(p1, "MESH_MAPPINGCHANNEL")
             THEN LET iIndex == ParseLV4MeshLong(TokenMatch(p1, "MESH_MAPPINGCHANNEL"))
                      p2 == IF iIndex.value < 2
                            THEN SkipSection(LogWarning(iIndex.ps, InvalidChannel))
                            ELSE iIndex.ps
                  IN  IF iIndex.value = 0 THEN HandleSection(p2, top, "2", "*MESH")
                      ELSE IF iIndex.value > AI_MAX_NUMBER_OF_TEXTURECOORDS
                      THEN Continue(SkipSection(LogWarning(p2, "Too many UV channels specified. Skipping channel ..")),
                                    top)
                      ELSE Call(p2, top, [Frame("ParseLV3MappingChannel")
                                             EXCEPT !.iNum = iIndex.value - 1])
             ELSE IF TokenMatches(p1, "MESH_ANIMATION")
             THEN Continue(LogWarning(TokenMatch(p1, "MESH_ANIMATION"), AnimationIgnored), top)
             ELSE IF TokenMatches(p1, "MESH_WEIGHTS")
             THEN Call(TokenMatch(p1, "MESH_WEIGHTS"), top, Frame("ParseLV3MeshWeightsBlock"))
             ELSE HandleSection(p1, top, "2", "*MESH")
    ELSE HandleSection(ps, top, "2", "*MESH")

\* Parser::ParseLV3MappingChannel: iNum is iChannel
ParseLV3MappingChannel(ps, top) ==
    IF At(ps.mFilePtr) = "*"
    THEN LET p1 == Advance(ps, 1)
             Long(token) == ParseLV4MeshLong(TokenMatch(p1, token))
         IN  IF TokenMatches(p1, "MESH_NUMTVERTEX")
             THEN Continue(Long("MESH_NUMTVERTEX").ps,
                           [top EXCEPT !.iNumTVertices = Long("MESH_NUMTVERTEX").value])
             ELSE IF TokenMatches(p1, "MESH_NUMTVFACES")
             THEN Continue(Long("MESH_NUMTVFACES").ps,
                           [top EXCEPT !.iNumTFaces = Long("MESH_NUMTVFACES").value])
             ELSE IF TokenMatches(p1, "MESH_TVERTLIST")
             THEN CallTListBlock(TokenMatch(p1, "MESH_TVERTLIST"), top, top.iNumTVertices,
                                 top.iNum)
             ELSE IF TokenMatches(p1, "MESH_TFACELIST")
             THEN CallTFaceListBlock(TokenMatch(p1, "MESH_TFACELIST"), top, top.iNumTFaces,
                                     top.iNum)
             ELSE HandleSection(p1, top, "3", "*MESH_MAPPING_CHANNEL")
    ELSE HandleSection(ps, top, "3", "*MESH_MAPPING_CHANNEL")

\* Parser::ParseLV3MeshWeightsBlock
ParseLV3MeshWeightsBlock(ps, top) ==
    IF At(ps.mFilePtr) = "*"
    THEN LET p1 == Advance(ps, 1)
             Long(token) == ParseLV4MeshLong(TokenMatch(p1, token))
         IN  IF TokenMatches(p1, "MESH_NUMVERTEX")
             THEN Continue(Long("MESH_NUMVERTEX").ps,
                           [top EXCEPT !.iNumVertices = Long("MESH_NUMVERTEX").value])
             ELSE IF TokenMatches(p1, "MESH_NUMBONE")
             THEN Continue(Long("MESH_NUMBONE").ps,
                           [top EXCEPT !.iNumBones = Long("MESH_NUMBONE").value])
             ELSE IF TokenMatches(p1, "MESH_BONE_LIST")
             THEN CallMeshBones(TokenMatch(p1, "MESH_BONE_LIST"), top, top.iNumBones)
             ELSE IF TokenMatches(p1, "MESH_BONE_VERTEX_LIST")
             THEN CallMeshBonesVertices(TokenMatch(p1, "MESH_BONE_VERTEX_LIST"), top,
                                        top.iNumVertices)
             ELSE HandleSection(p1, top, "3", "*MESH_WEIGHTS")
    ELSE HandleSection(ps, top, "3", "*MESH_WEIGHTS")

----------------------------------------------------------------------------
(* The section parser run on a file *)

ParseStep == Running("Parse") /\ Commit(Parse(PS, Head(stack)))
SceneBlockStep ==
    Running("ParseLV1SceneBlock") /\ Commit(ParseLV1SceneBlock(PS, Head(stack)))
MaterialListBlockStep ==
    /\ Running("ParseLV1MaterialListBlock")
    /\ Commit(ParseLV1MaterialListBlock(PS, Head(stack)))
MaterialBlockStep ==
    Running("ParseLV2MaterialBlock") /\ Commit(ParseLV2MaterialBlock(PS, Head(stack)))
ObjectBlockStep ==
    Running("ParseLV1ObjectBlock") /\ Commit(ParseLV1ObjectBlock(PS, Head(stack)))
MeshBlockStep ==
    Running("ParseLV2MeshBlock") /\ Commit(ParseLV2MeshBlock(PS, Head(stack)))
MappingChannelStep ==
    Running("ParseLV3MappingChannel") /\ Commit(ParseLV3MappingChannel(PS, Head(stack)))

\* pieces of a file: a keyword, with the space after it
Keyword(name) == <<"*", name, SP>>

\* files with line ends on the paths that count lines
LineChunks ==
    {<<CR, LF>>, <<LF>>, <<"{">>, <<"}">>, <<"*", "3DSMAX_ASCIIEXPORT">>,
     Keyword("SCENE"), Keyword("GEOMOBJECT") \o Keyword("MESH"),
     Keyword("MESH_MAPPINGCHANNEL") \o <<"0">>, Keyword("MESH_MAPPINGCHANNEL") \o <<"2">>}

\* files of sections, with and without their braces
SectionChunks ==
    {<<"{">>, <<"}">>, Keyword("SCENE"), Keyword("GROUP") \o <<"{">>,
     Keyword("MATERIAL_LIST") \o <<"{">>, Keyword("MATERIAL_COUNT") \o <<"2">>,
     Keyword("MATERIAL") \o <<"1", "{">>, Keyword("GEOMOBJECT"),
     Keyword("MESH") \o <<"{">>, Keyword("UNKNOWN") \o <<"{">>}

RECURSIVE Flatten(_)
Flatten(chunks) == IF chunks = <<>> THEN <<>> ELSE Head(chunks) \o Flatten(Tail(chunks))

Files ==
    {Flatten(cs) \o <<NUL>> :
        cs \in SeqsUpTo(LineChunks, MaxChunks) \cup SeqsUpTo(SectionChunks, MaxChunks)}

\* Parser::Parser, and the call of Parse()
ParserInit ==
    /\ input \in Files
    /\ mEnd = Len(input) - 1
    /\ mFilePtr = 0
    /\ iLineNumber = 0
    /\ bLastWasEndLine = FALSE
    /\ lineHits = <<>>
    /\ stack = <<Frame("Parse")>>
    /\ fatal = <<>>
    /\ m_vMaterials = <<>>
    /\ m_vMeshes = <<>>
    /\ mesh = <<>>
    /\ pc = "parse"
    /\ warnings = <<>>
    /\ ub = {}
    /\ FacesIdle /\ UVIdle
    /\ MaterialsIdle
    /\ SceneIdle

ParserNext ==
    \/ ParseStep
    \/ SceneBlockStep
    \/ MaterialListBlockStep
    \/ MaterialBlockStep
    \/ ObjectBlockStep
    \/ MeshBlockStep
    \/ MappingChannelStep

SpecParser == ParserInit /\ [][ParserNext]_vars

\* the cursor stays inside the file
CursorInFile == mFilePtr \in 0 .. mEnd

\* the number of times the line counter was incremented with the cursor at one
\* of the offsets
HitsAt(offsets) == Cardinality({j \in 1 .. Len(lineHits) : lineHits[j] \in offsets})

\* C2: whatever the path of the parser, a carriage return + line feed pair that
\* the cursor has passed has incremented the line counter exactly once
C2_CrLfCountedOnce ==
    \A q \in 0 .. Len(input) - 2 :
        (At(q) = CR /\ At(q + 1) = LF /\ mFilePtr > q + 1) => HitsAt({q, q + 1}) = 1

\* the cursor is at the end of the input, in the loop of a handler
AtEof == pc = "parse" /\ At(mFilePtr) = NUL

\* at the end of the input the top level loop returns without an error, and the
\* parse that finishes has raised none
TopLevelEofClean ==
    /\ [][(AtEof /\ Head(stack).fn = "Parse") => (pc' # "failed" /\ stack' = Tail(stack))]_vars
    /\ [](pc = "done" => fatal = <<>>)

\* C3 as claimed: the end of the input inside any section below the top level
\* (a block of the top level loop with its brace open, scene, material list and
\* object blocks included) is fatal; in the top level section it is not
C3_EofFatalBelowTopLevel ==
    /\ [][(AtEof /\ Len(stack) > 1 /\ Head(stack).iDepth >= 1) => pc' = "failed"]_vars
    /\ TopLevelEofClean

\* C3, amended: the end of the input met by a handler of level 2 or deeper is
\* fatal, the message carrying the line number; met by the top level loop or by
\* a level 1 block (scene, material list, object) it is not: the handler returns
C3_EofFatalFromLevel2 ==
    /\ [][(AtEof /\ Head(stack).fn \in NestedHandlers) => pc' = "failed"]_vars
    /\ [](pc = "failed" => /\ Len(fatal) = 1
                           /\ fatal[1].line = iLineNumber
                           /\ At(mFilePtr) = NUL
                           /\ Head(stack).fn \in NestedHandlers)
    /\ [][(AtEof /\ Head(stack).fn \in TopLevelHandlers)
             => (pc' # "failed" /\ stack' = Tail(stack))]_vars
    /\ TopLevelEofClean

C3_Witness ==
    /\ pc = "failed"
    /\ Head(stack).fn = "ParseLV2MeshBlock"
    /\ Head(stack).iDepth = 1
    /\ fatal = <<[line |-> 1, msg |-> <<"Encountered unexpected EOL while parsing a ", "*MESH",
                                        " chunk (Level ", "2", ")">>]>>

\* the cursor of the running handler is at a keyword of no handler's table
AtUnknownKeyword ==
    /\ pc = "parse" /\ Len(stack) > 0
    /\ At(mFilePtr) = "*" /\ At(mFilePtr + 1) = "UNKNOWN"

\* the handler that meets the keyword goes on: it does not return, and logs nothing
UnknownKeywordStep ==
    AtUnknownKeyword =>
        /\ pc' = "parse"
        /\ Len(stack') = Len(stack) /\ Head(stack').fn = Head(stack).fn
        /\ warnings' = warnings

\* files with an unknown keyword and its block at the top level, and a section
\* after them
UnknownThen(section) ==
    Flatten(<<Keyword("UNKNOWN") \o <<"{">>, <<"}">>, section>>) \o <<NUL>>
SectionsAfter == {Keyword("SCENE"), Keyword("GEOMOBJECT"), Keyword("MATERIAL_LIST") \o <<"{">>}

\* the parse of such a file ends at the end of the file, the section read
LaterSectionRead ==
    \A section \in SectionsAfter :
        (input = UnknownThen(section) /\ pc # "parse") =>
            /\ At(mFilePtr) = NUL
            /\ section = Keyword("GEOMOBJECT") => Len(m_vMeshes) = 1

\* C18: the handler of any level that meets an unrecognized keyword, with a block
\* of its own or without, neither returns nor logs because of it, and the
\* recognized sections that follow the keyword and its block are still read
C18_UnknownAbsorbed == [][UnknownKeywordStep]_vars /\ []LaterSectionRead

----------------------------------------------------------------------------
(* The section parser run on a byte range [file, file + fileLen) that need not *)
(* hold a zero: the bytes that follow the range are whatever the memory holds. *)

\* the bytes of memory that follow the range, up to the first zero
Beyond == {<<NUL>>, <<"}", NUL>>, Keyword("SCENE") \o <<"{", NUL>>}

\* the ranges: the chunks of a file of one byte or more, closed by a zero or not
Ranges ==
    {Flatten(cs) \o z :
        cs \in (SeqsUpTo(LineChunks, MaxChunks) \cup SeqsUpTo(SectionChunks, MaxChunks))
                   \ {<<>>},
        z \in {<<>>, <<NUL>>}}

\* Parser::Parser(file, fileLen), and the call of Parse()
BoundedInit ==
    /\ \E range \in Ranges, tail \in Beyond :
           /\ input = range \o tail
           /\ mEnd = Len(range)
    /\ mFilePtr = 0
    /\ iLineNumber = 0
    /\ bLastWasEndLine = FALSE
    /\ lineHits = <<>>
    /\ stack = <<Frame("Parse")>>
    /\ fatal = <<>>
    /\ m_vMaterials = <<>>
    /\ m_vMeshes = <<>>
    /\ mesh = <<>>
    /\ pc = "parse"
    /\ warnings = <<>>
    /\ ub = {}
    /\ FacesIdle /\ UVIdle
    /\ MaterialsIdle
    /\ SceneIdle

SpecBounded == BoundedInit /\ [][ParserNext]_vars

\* the range holds a zero
ZeroInRange == \E q \in 0 .. mEnd - 1 : At(q) = NUL

\* C13: the byte that the running handler reads next, the one at the cursor,
\* lies inside the range [begin, end), whether the range holds a zero or not
C13_ReadsInsideRange == (pc = "parse" /\ Len(stack) > 0) => mFilePtr < mEnd

\* with a zero inside the range no handler reads a byte at or beyond its end
ReadsInsideTerminatedRange ==
    (ZeroInRange /\ pc = "parse" /\ Len(stack) > 0) => mFilePtr < mEnd

----------------------------------------------------------------------------
(* ASEParser.cpp: the field readers of the list entries *)

\* fast_atoreal_move(mFilePtr, fOut): the number at the cursor, consumed. The
\* numbers of the model are whole numbers without a sign; a cursor that is not
\* at a digit makes the call throw DeadlyImportError ("Cannot parse string ...
\* as a real number")
fast_atoreal_move(ps) ==
    IF IsNumeric(At(ps.mFilePtr))
    THEN [ps |-> strtoul10(ps, 0).ps, value |-> strtoul10(ps, 0).value, thrown |-> FALSE]
    ELSE [ps |-> ps, value |-> 0, thrown |-> TRUE]

\* the DeadlyImportError of fast_atoreal_move leaves the handler; its message
\* carries no line number
NotARealNumber(ps, top) ==
    [Result(ps, top, "throw")
        EXCEPT !.error = <<[line |-> 0, msg |-> <<"Cannot parse string as a real number">>]>>]

FloatWarning == "Unable to parse float: unexpected EOL [#1]"

ParseLV4MeshReal(ps) ==
    IF ~SkipSpacesResult(ps)
    THEN [ps |-> IncLine(LogWarning(SkipSpaces(ps), FloatWarning)), value |-> 0,
          thrown |-> FALSE]
    ELSE fast_atoreal_move(SkipSpaces(ps))

ParseLV4MeshFloat(ps) ==
    IF ~SkipSpacesResult(ps)
    THEN [ps |-> IncLine(LogWarning(SkipSpaces(ps), FloatWarning)), value |-> 0,
          thrown |-> FALSE]
    ELSE fast_atoreal_move(SkipSpaces(ps))

\* the triples without an index: three reads in sequence
RealTriple(ps) ==
    LET r1 == ParseLV4MeshReal(ps)
        r2 == ParseLV4MeshReal(r1.ps)
        r3 == ParseLV4MeshReal(r2.ps)
    IN  IF r1.thrown THEN [ps |-> r1.ps, value |-> <<0, 0, 0>>, thrown |-> TRUE]
        ELSE IF r2.thrown THEN [ps |-> r2.ps, value |-> <<r1.value, 0, 0>>, thrown |-> TRUE]
        ELSE [ps |-> r3.ps, value |-> <<r1.value, r2.value, r3.value>>, thrown |-> r3.thrown]

FloatTriple(ps) ==
    LET r1 == ParseLV4MeshFloat(ps)
        r2 == ParseLV4MeshFloat(r1.ps)
        r3 == ParseLV4MeshFloat(r2.ps)
    IN  IF r1.thrown THEN [ps |-> r1.ps, value |-> <<0, 0, 0>>, thrown |-> TRUE]
        ELSE IF r2.thrown THEN [ps |-> r2.ps, value |-> <<r1.value, 0, 0>>, thrown |-> TRUE]
        ELSE [ps |-> r3.ps, value |-> <<r1.value, r2.value, r3.value>>, thrown |-> r3.thrown]

LongTriple(ps) ==
    LET r1 == ParseLV4MeshLong(ps)
        r2 == ParseLV4MeshLong(r1.ps)
        r3 == ParseLV4MeshLong(r2.ps)
    IN  [ps |-> r3.ps, value |-> <<r1.value, r2.value, r3.value>>]

\* the triples with an index: the index, then the triple
ParseLV4MeshRealTriple(ps) ==
    LET rIndexOut == ParseLV4MeshLong(ps)
        apOut == RealTriple(rIndexOut.ps)
    IN  [ps |-> apOut.ps, index |-> rIndexOut.value, value |-> apOut.value,
         thrown |-> apOut.thrown]

ParseLV4MeshFloatTriple(ps) ==
    LET rIndexOut == ParseLV4MeshLong(ps)
        apOut == FloatTriple(rIndexOut.ps)
    IN  [ps |-> apOut.ps, index |-> rIndexOut.value, value |-> apOut.value,
         thrown |-> apOut.thrown]

ParseLV4MeshLongTriple(ps) ==
    LET rIndexOut == ParseLV4MeshLong(ps)
        apOut == LongTriple(rIndexOut.ps)
    IN  [ps |-> apOut.ps, index |-> rIndexOut.value, value |-> apOut.value]

\* Parser::ParseString: ok is the result; out is assigned only when it is true
FaceColonWarning == "Unable to parse *MESH_FACE Element: Unexpected EOL. ':' expected [#2]"

\* the early returns of ParseLV4MeshFace: LogWarning, SkipToNextToken, return
FaceGivenUp(ps, out, szWarn) ==
    [ps |-> SkipToNextToken(LogWarning(ps, szWarn)), out |-> out, returned |-> TRUE]

\* the loop over the three "A: <i>" fields, from field n on
RECURSIVE FaceIndices(_, _, _)
FaceIndices(ps, out, n) ==
    IF n = 3 THEN [ps |-> ps, out |-> out, returned |-> FALSE]
    ELSE LET p1 == SkipSpaces(ps)
             ch == At(p1.mFilePtr)
             iIndex == IF ch \in {"A", "a"} THEN 0 ELSE IF ch \in {"B", "b"} THEN 1 ELSE 2
             p2 == SkipSpaces(Advance(p1, 1))
             p3 == SkipSpaces(Advance(p2, 1))
             val == strtoul10(p3, 0)
         IN  IF ~SkipSpacesResult(ps)
             THEN FaceGivenUp(p1, out, "Unable to parse *MESH_FACE Element: Unexpected EOL")
             ELSE IF ch \notin {"A", "a", "B", "b", "C", "c"}
             THEN FaceGivenUp(p1, out, "Unable to parse *MESH_FACE Element: Unexpected EOL. A,B or C expected [#3]")
             ELSE IF ~SkipSpacesResult(Advance(p1, 1)) \/ At(p2.mFilePtr) # ":"
             THEN FaceGivenUp(p2, out, FaceColonWarning)
             ELSE IF ~SkipSpacesResult(Advance(p2, 1))
             THEN FaceGivenUp(p3, out, "Unable to parse *MESH_FACE Element: Unexpected EOL. Vertex index expected [#4]")
             ELSE FaceIndices(val.ps, [out EXCEPT !.mIndices[iIndex + 1] = val.value], n + 1)

\* while (true) { if ('*' == *mFilePtr) break; if (IsLineEnd(*mFilePtr)) return; mFilePtr++; }
RECURSIVE SkipToStar(_)
SkipToStar(ps) ==
    IF At(ps.mFilePtr) = "*" \/ IsLineEnd(At(ps.mFilePtr)) THEN ps ELSE SkipToStar(Advance(ps, 1))

\* TokenMatch with a token that starts with the asterisk
StarTokenMatches(ps, name) ==
    /\ At(ps.mFilePtr) = "*"
    /\ At(ps.mFilePtr + 1) = name
    /\ IsSpaceOrNewLine(At(ps.mFilePtr + 2))

StarTokenMatch(ps, name) ==
    IF At(ps.mFilePtr + 2) # NUL THEN Advance(ps, 3) ELSE Advance(ps, 2)

\* ai_to_string of a number >= 0
RECURSIVE ai_to_string(_)
ai_to_string(n) ==
    IF n < 10 THEN Digits[n + 1] ELSE ai_to_string(n \div 10) \o Digits[(n % 10) + 1]

SmoothGroupWarning(value) ==
    "Unable to set smooth group, value with " \o ai_to_string(value) \o " out of range"

\* the loop over the smoothing groups; a group is read where a digit below '9'
\* stands, and the bit set is the one a second read at the cursor gives
RECURSIVE SmoothingGroups(_, _)
SmoothingGroups(ps, out) ==
    LET ch == At(ps.mFilePtr)
        isGroup == IsNumeric(ch) /\ DigitValue(ch) < 9
        value == strtoul10(ps, 0)
        bit == strtoul10(value.ps, 0)
        p1 == IF ~isGroup THEN ps
              ELSE IF value.value < 32 THEN bit.ps
              ELSE LogWarning(value.ps, SmoothGroupWarning(value.value))
        out1 == IF isGroup /\ value.value < 32
                THEN [out EXCEPT !.iSmoothGroup = @ \cup {bit.value}]
                ELSE out
        p2 == SkipSpaces(p1)
    IN  IF At(p2.mFilePtr) # "," THEN [ps |-> p2, out |-> out1]
        ELSE SmoothingGroups(SkipSpaces(Advance(p2, 1)), out1)

\* Parser::ParseLV4MeshFace, from "now we need to skip the AB, BC, CA blocks" on
FaceTail(ps, out) ==
    LET p1 == SkipToStar(ps)
        smoothing == StarTokenMatches(p1, "MESH_SMOOTHING")
        p2 == StarTokenMatch(p1, "MESH_SMOOTHING")
        groups == SmoothingGroups(SkipSpaces(p2), out)
        p3 == IF smoothing THEN SkipToStar(groups.ps) ELSE p1
        out3 == IF smoothing THEN groups.out ELSE out
        p4 == StarTokenMatch(p3, "MESH_MTLID")
        mtl == strtoul10(SkipSpaces(p4), 0)
    IN  IF At(p1.mFilePtr) # "*" THEN [ps |-> p1, out |-> out]
        ELSE IF smoothing /\ ~SkipSpacesResult(p2)
        THEN [ps |-> SkipToNextToken(LogWarning(SkipSpaces(p2),
                        "Unable to parse *MESH_SMOOTHING Element: Unexpected EOL. Smoothing group(s) expected [#5]")),
              out |-> out]
        ELSE IF At(p3.mFilePtr) # "*" THEN [ps |-> p3, out |-> out3]
        ELSE IF ~StarTokenMatches(p3, "MESH_MTLID") THEN [ps |-> p3, out |-> out3]
        ELSE IF ~SkipSpacesResult(p4)
        THEN [ps |-> SkipToNextToken(LogWarning(SkipSpaces(p4),
                        "Unable to parse *MESH_MTLID Element: Unexpected EOL. Material index expected [#6]")),
              out |-> out3]
        ELSE [ps |-> mtl.ps, out |-> [out3 EXCEPT !.iMaterial = mtl.value]]

\* Parser::ParseLV4MeshFace
ParseLV4MeshFace(ps) ==
    LET p1 == SkipSpaces(ps)
        iFace == strtoul10(p1, 0)
        out1 == [DefaultFace EXCEPT !.iFace = iFace.value]
        p2 == SkipSpaces(iFace.ps)
        p3 == IF At(p2.mFilePtr) = ":" THEN Advance(p2, 1) ELSE p2
        indices == FaceIndices(p3, out1, 0)
    IN  IF ~SkipSpacesResult(ps)
        THEN [ps |-> SkipToNextToken(LogWarning(p1,
                        "Unable to parse *MESH_FACE Element: Unexpected EOL [#1]")),
              out |-> DefaultFace]
        ELSE IF ~SkipSpacesResult(iFace.ps)
        THEN [ps |-> SkipToNextToken(LogWarning(p2, FaceColonWarning)), out |-> out1]
        ELSE IF indices.returned THEN [ps |-> indices.ps, out |-> indices.out]
        ELSE FaceTail(indices.ps, indices.out)

----------------------------------------------------------------------------
(* ASEParser.cpp: the list blocks. Each entry of a list names the element it *)
(* sets by its index in the array sized to the declared count.               *)

InvalidIndexOffByOne(iIndex, iNum) == iIndex > iNum

\* if (iIndex >= iNumVertices)
InvalidIndex(iIndex, iNum) == iIndex >= iNum

\* the warning of each list for an index that is not below the declared count
InvalidIndexWarning ==
    [ParseLV3MeshVertexListBlock |-> "Invalid vertex index. It will be ignored",
     ParseLV3MeshFaceListBlock |-> "Face has an invalid index. It will be ignored",
     ParseLV3MeshTListBlock |-> "Tvertex has an invalid index. It will be ignored",
     ParseLV3MeshTFaceListBlock |-> "UV-Face has an invalid index. It will be ignored",
     ParseLV3MeshCListBlock |-> "Vertex color has an invalid index. It will be ignored",
     ParseLV3MeshCFaceListBlock |-> "UV-Face has an invalid index. It will be ignored",
     ParseLV4MeshBones |-> "Bone index is out of bounds"]

\* Parser::ParseLV3MeshVertexListBlock: iNum is iNumVertices
ParseLV3MeshVertexListBlock(ps, top) ==
    IF At(ps.mFilePtr) = "*"
    THEN LET p1 == Advance(ps, 1)
             vTemp == ParseLV4MeshRealTriple(TokenMatch(p1, "MESH_VERTEX"))
         IN  IF TokenMatches(p1, "MESH_VERTEX")
             THEN IF vTemp.thrown THEN NotARealNumber(vTemp.ps, top)
                  ELSE IF InvalidIndex(vTemp.index, top.iNum)
                  THEN Continue(LogWarning(vTemp.ps, InvalidIndexWarning.ParseLV3MeshVertexListBlock),
                                top)
                  ELSE [Continue(vTemp.ps, top)
                           EXCEPT !.mesh.mPositions[vTemp.index + 1] = vTemp.value]
             ELSE HandleSection(p1, top, "3", "*MESH_VERTEX_LIST")
    ELSE HandleSection(ps, top, "3", "*MESH_VERTEX_LIST")

\* Parser::ParseLV3MeshFaceListBlock: iNum is iNumFaces
ParseLV3MeshFaceListBlock(ps, top) ==
    IF At(ps.mFilePtr) = "*"
    THEN LET p1 == Advance(ps, 1)
             mFace == ParseLV4MeshFace(TokenMatch(p1, "MESH_FACE"))
         IN  IF TokenMatches(p1, "MESH_FACE")
             THEN IF InvalidIndex(mFace.out.iFace, top.iNum)
                  THEN Continue(LogWarning(mFace.ps, InvalidIndexWarning.ParseLV3MeshFaceListBlock),
                                top)
                  ELSE [Continue(mFace.ps, top)
                           EXCEPT !.mesh.mFaces[mFace.out.iFace + 1] = mFace.out]
             ELSE HandleSection(p1, top, "3", "*MESH_FACE_LIST")
    ELSE HandleSection(ps, top, "3", "*MESH_FACE_LIST")

\* Parser::ParseLV3MeshTListBlock: iNum is iNumVertices, iOld is iChannel
ParseLV3MeshTListBlock(ps, top) ==
    IF At(ps.mFilePtr) = "*"
    THEN LET p1 == Advance(ps, 1)
             vTemp == ParseLV4MeshRealTriple(TokenMatch(p1, "MESH_TVERT"))
             stored == IF vTemp.thrown THEN NotARealNumber(vTemp.ps, top)
                       ELSE IF InvalidIndex(vTemp.index, top.iNum)
                       THEN Continue(LogWarning(vTemp.ps, InvalidIndexWarning.ParseLV3MeshTListBlock),
                                     top)
                       ELSE [Continue(vTemp.ps, top)
                                EXCEPT !.mesh.amTexCoords[top.iOld + 1][vTemp.index + 1] =
                                           vTemp.value]
         IN  IF TokenMatches(p1, "MESH_TVERT")
             THEN IF vTemp.value[3] # 0
                  THEN [stored EXCEPT !.mesh.mNumUVComponents[top.iOld + 1] = 3]
                  ELSE stored
             ELSE HandleSection(p1, top, "3", "*MESH_TVERT_LIST")
    ELSE HandleSection(ps, top, "3", "*MESH_TVERT_LIST")

\* Parser::ParseLV3MeshTFaceListBlock: iNum is iNumFaces, iOld is iChannel
ParseLV3MeshTFaceListBlock(ps, top) ==
    IF At(ps.mFilePtr) = "*"
    THEN LET p1 == Advance(ps, 1)
             aiValues == ParseLV4MeshLongTriple(TokenMatch(p1, "MESH_TFACE"))
         IN  IF TokenMatches(p1, "MESH_TFACE")
             THEN IF \/ InvalidIndex(aiValues.index, top.iNum)
                     \/ InvalidIndex(aiValues.index, Len(mesh.mFaces))
                  THEN Continue(LogWarning(aiValues.ps,
                                           InvalidIndexWarning.ParseLV3MeshTFaceListBlock), top)
                  ELSE [Continue(aiValues.ps, top)
                           EXCEPT !.mesh.mFaces[aiValues.index + 1].amUVIndices[top.iOld + 1] =
                                      aiValues.value]
             ELSE HandleSection(p1, top, "3", "*MESH_TFACE_LIST")
    ELSE HandleSection(ps, top, "3", "*MESH_TFACE_LIST")

\* Parser::ParseLV3MeshCListBlock: iNum is iNumVertices; vTemp.a is 1
ParseLV3MeshCListBlock(ps, top) ==
    IF At(ps.mFilePtr) = "*"
    THEN LET p1 == Advance(ps, 1)
             vTemp == ParseLV4MeshFloatTriple(TokenMatch(p1, "MESH_VERTCOL"))
         IN  IF TokenMatches(p1, "MESH_VERTCOL")
             THEN IF vTemp.thrown THEN NotARealNumber(vTemp.ps, top)
                  ELSE IF InvalidIndex(vTemp.index, top.iNum)
                  THEN Continue(LogWarning(vTemp.ps, InvalidIndexWarning.ParseLV3MeshCListBlock),
                                top)
                  ELSE [Continue(vTemp.ps, top)
                           EXCEPT !.mesh.mVertexColors[vTemp.index + 1] = vTemp.value \o <<1>>]
             ELSE HandleSection(p1, top, "3", "*MESH_CVERTEX_LIST")
    ELSE HandleSection(ps, top, "3", "*MESH_CVERTEX_LIST")

\* Parser::ParseLV3MeshCFaceListBlock: iNum is iNumFaces
ParseLV3MeshCFaceListBlock(ps, top) ==
    IF At(ps.mFilePtr) = "*"
    THEN LET p1 == Advance(ps, 1)
             aiValues == ParseLV4MeshLongTriple(TokenMatch(p1, "MESH_CFACE"))
         IN  IF TokenMatches(p1, "MESH_CFACE")
             THEN IF \/ InvalidIndex(aiValues.index, top.iNum)
                     \/ InvalidIndex(aiValues.index, Len(mesh.mFaces))
                  THEN Continue(LogWarning(aiValues.ps,
                                           InvalidIndexWarning.ParseLV3MeshCFaceListBlock), top)
                  ELSE [Continue(aiValues.ps, top)
                           EXCEPT !.mesh.mFaces[aiValues.index + 1].mColorIndices =
                                      aiValues.value]
             ELSE HandleSection(p1, top, "3", "*MESH_CFACE_LIST")
    ELSE HandleSection(ps, top, "3", "*MESH_CFACE_LIST")

\* Parser::ParseLV4MeshBones: iNum is iNumBones
ParseLV4MeshBones(ps, top) ==
    IF At(ps.mFilePtr) = "*"
    THEN LET p1 == Advance(ps, 1)
             p2 == TokenMatch(p1, "MESH_BONE_NAME")
             iIndex == strtoul10(SkipSpaces(p2), 0)
             name == ParseString(iIndex.ps, "*MESH_BONE_NAME")
         IN  IF TokenMatches(p1, "MESH_BONE_NAME")
             THEN IF ~SkipSpacesResult(p2)
                  THEN HandleSection(SkipSpaces(p2), top, "3", "*MESH_BONE_LIST")
                  ELSE IF InvalidIndex(iIndex.value, top.iNum)
                  THEN Continue(LogWarning(iIndex.ps, InvalidIndexWarning.ParseLV4MeshBones), top)
                  ELSE IF name.ok
                  THEN [Continue(name.ps, top)
                           EXCEPT !.mesh.mBones[iIndex.value + 1].mName = name.out]
                  ELSE Continue(SkipToNextToken(name.ps), top)
             ELSE HandleSection(p1, top, "3", "*MESH_BONE_LIST")
    ELSE HandleSection(ps, top, "3", "*MESH_BONE_LIST")

\* the index test of a bone vertex entry
BoneVertexIndexAbove(iIndex, size) == iIndex > size

BoneVertexIndexOutOfBounds(iIndex, size) == iIndex >= size

BoneVertexWarning ==
    "Bone vertex index is out of bounds. Using the largest valid bone vertex index instead"

\* the loop over the (bone index, weight) pairs of a bone vertex entry, to the
\* end of the line: the pairs to store, those with the bone index -1 left out;
\* a weight that is no number ends the loop with the exception of
\* fast_atoreal_move
RECURSIVE BoneWeights(_, _)
BoneWeights(ps, pairs) ==
    LET first == strtoul10(SkipSpaces(ps), 0)
        second == fast_atoreal_move(SkipSpaces(first.ps))
    IN  IF ~SkipSpacesResult(ps)
        THEN [ps |-> SkipSpaces(ps), pairs |-> pairs, thrown |-> FALSE]
        ELSE IF ~SkipSpacesResult(first.ps)
        THEN [ps |-> SkipSpaces(first.ps), pairs |-> pairs, thrown |-> FALSE]
        ELSE IF second.thrown
        THEN [ps |-> second.ps, pairs |-> pairs, thrown |-> TRUE]
        ELSE BoneWeights(second.ps,
                         IF first.value # UIntModulus - 1
                         THEN Append(pairs, <<first.value, second.value>>)
                         ELSE pairs)

\* Parser::ParseLV4MeshBonesVertices: the array was resized to iNumVertices when
\* the handler was entered. mBoneVertices[iIndex] with iIndex outside the array
\* is undefined behaviour: the event is recorded in ub, and nothing is said of
\* the array after it
ParseLV4MeshBonesVertices(ps, top) ==
    IF At(ps.mFilePtr) = "*"
    THEN LET p1 == Advance(ps, 1)
             read == strtoul10(TokenMatch(p1, "MESH_BONE_VERTEX"), 0)
             size == Len(mesh.mBoneVertices)
             p2 == IF size = 0 THEN SkipSection(read.ps) ELSE read.ps
             outOfBounds == BoneVertexIndexOutOfBounds(read.value, size)
             p3 == IF outOfBounds THEN LogWarning(p2, BoneVertexWarning) ELSE p2
             iIndex == IF outOfBounds THEN U32(size - 1) ELSE read.value
             afVert == RealTriple(p3)
             weights == BoneWeights(afVert.ps, <<>>)
             after == IF weights.thrown THEN NotARealNumber(weights.ps, top)
                      ELSE Continue(weights.ps, top)
         IN  IF TokenMatches(p1, "MESH_BONE_VERTEX")
             THEN IF afVert.thrown THEN NotARealNumber(afVert.ps, top)
                  ELSE IF weights.pairs = <<>> THEN after
                  ELSE IF iIndex >= size
                  THEN [after EXCEPT !.ub = @ \cup {"mBoneVertices[iIndex] out of range"}]
                  ELSE [after EXCEPT !.mesh.mBoneVertices[iIndex + 1].mBoneWeights =
                                         @ \o weights.pairs]
             ELSE HandleSection(p1, top, "4", "*MESH_BONE_VERTEX")
    ELSE HandleSection(ps, top, "4", "*MESH_BONE_VERTEX")

----------------------------------------------------------------------------
(* The section parser run on a mesh with one list block *)

WeightsBlockStep ==
    Running("ParseLV3MeshWeightsBlock") /\ Commit(ParseLV3MeshWeightsBlock(PS, Head(stack)))
VertexListBlockStep ==
    /\ Running("ParseLV3MeshVertexListBlock")
    /\ Commit(ParseLV3MeshVertexListBlock(PS, Head(stack)))
FaceListBlockStep ==
    Running("ParseLV3MeshFaceListBlock") /\ Commit(ParseLV3MeshFaceListBlock(PS, Head(stack)))
TListBlockStep ==
    Running("ParseLV3MeshTListBlock") /\ Commit(ParseLV3MeshTListBlock(PS, Head(stack)))
TFaceListBlockStep ==
    Running("ParseLV3MeshTFaceListBlock") /\ Commit(ParseLV3MeshTFaceListBlock(PS, Head(stack)))
CListBlockStep ==
    Running("ParseLV3MeshCListBlock") /\ Commit(ParseLV3MeshCListBlock(PS, Head(stack)))
CFaceListBlockStep ==
    Running("ParseLV3MeshCFaceListBlock") /\ Commit(ParseLV3MeshCFaceListBlock(PS, Head(stack)))
MeshBonesStep ==
    Running("ParseLV4MeshBones") /\ Commit(ParseLV4MeshBones(PS, Head(stack)))

\* the keyword of the entries of each list
EntryKeyword ==
    [ParseLV3MeshVertexListBlock |-> "MESH_VERTEX",
     ParseLV3MeshFaceListBlock |-> "MESH_FACE",
     ParseLV3MeshTListBlock |-> "MESH_TVERT",
     ParseLV3MeshTFaceListBlock |-> "MESH_TFACE",
     ParseLV3MeshCListBlock |-> "MESH_VERTCOL",
     ParseLV3MeshCFaceListBlock |-> "MESH_CFACE",
     ParseLV4MeshBones |-> "MESH_BONE_NAME"]

Digit(d) == Digits[d + 1]

\* an entry is written with all its fields, or cut after its index
Entries == [index : 0 .. MaxIndex, form : {"full", "short"}]

\* the line of the entry at place j of the list of handler fn; its values are j,
\* j + 1 and j - 1
EntryText(fn, e, j) ==
    LET start == Keyword(EntryKeyword[fn]) \o <<Digit(e.index)>>
        fields ==
            CASE fn = "ParseLV3MeshFaceListBlock" ->
                     <<":", SP, "A", ":", SP, Digit(j), SP, "B", ":", Digit(j + 1), SP,
                       "C", ":", TAB, Digit(j - 1), SP, "AB:", SP, "1", SP,
                       "*", "MESH_SMOOTHING", SP, Digit(j), SP,
                       "*", "MESH_MTLID", SP, Digit(j)>>
              [] fn = "ParseLV4MeshBones" -> <<SP, QUOTE, "b", Digit(j), QUOTE>>
              [] OTHER -> <<SP, Digit(j), SP, Digit(j + 1), TAB, Digit(j - 1)>>
    IN  IF e.form = "full" THEN start \o fields \o <<LF>> ELSE start \o <<LF>>

RECURSIVE EntriesText(_, _, _)
EntriesText(fn, es, j) ==
    IF es = <<>> THEN <<>> ELSE EntryText(fn, Head(es), j) \o EntriesText(fn, Tail(es), j + 1)

\* "*<count keyword> <count>*<list keyword> { <entries> }"
ListBlock(countKeyword, listKeyword, fn, cnt, es) ==
    Keyword(countKeyword) \o <<Digit(cnt)>> \o Keyword(listKeyword) \o <<"{">>
        \o EntriesText(fn, es, 1) \o <<"}">>

\* the face list that sizes the face array before a UV-face or colour-face list
FaceArray(cnt) ==
    ListBlock("MESH_NUMFACES", "MESH_FACE_LIST", "ParseLV3MeshFaceListBlock", cnt, <<>>)

ListBlocks(cnt, es) ==
    {ListBlock("MESH_NUMVERTEX", "MESH_VERTEX_LIST", "ParseLV3MeshVertexListBlock", cnt, es),
     ListBlock("MESH_NUMFACES", "MESH_FACE_LIST", "ParseLV3MeshFaceListBlock", cnt, es),
     ListBlock("MESH_NUMTVERTEX", "MESH_TVERTLIST", "ParseLV3MeshTListBlock", cnt, es),
     Keyword("MESH_MAPPINGCHANNEL") \o <<"2", "{">>
        \o ListBlock("MESH_NUMTVERTEX", "MESH_TVERTLIST", "ParseLV3MeshTListBlock", cnt, es)
        \o <<"}">>,
     ListBlock("MESH_NUMCVERTEX", "MESH_CVERTLIST", "ParseLV3MeshCListBlock", cnt, es),
     Keyword("MESH_WEIGHTS") \o <<"{">>
        \o ListBlock("MESH_NUMBONE", "MESH_BONE_LIST", "ParseLV4MeshBones", cnt, es)
        \o <<"}">>}
    \cup UNION {
        {FaceArray(f)
            \o ListBlock("MESH_NUMTVFACES", "MESH_TFACELIST", "ParseLV3MeshTFaceListBlock", cnt, es),
         FaceArray(f) \o Keyword("MESH_MAPPINGCHANNEL") \o <<"2", "{">>
            \o ListBlock("MESH_NUMTVFACES", "MESH_TFACELIST", "ParseLV3MeshTFaceListBlock", cnt, es)
            \o <<"}">>,
         FaceArray(f)
            \o ListBlock("MESH_NUMCVFACES", "MESH_CFACELIST", "ParseLV3MeshCFaceListBlock", cnt, es)}
        : f \in 0 .. MaxIndex}

\* a file with one mesh, the list declared with cnt elements and holding the
\* entries es
ListFiles(cnt, es) ==
    {Keyword("GEOMOBJECT") \o <<"{">> \o Keyword("MESH") \o <<"{">> \o block \o <<"}", "}", NUL>> :
        block \in ListBlocks(cnt, es)}

ListInit ==
    /\ \E cnt \in 0 .. MaxIndex, es \in SeqsUpTo(Entries, MaxEntries) :
           input \in ListFiles(cnt, es)
    /\ mEnd = Len(input) - 1
    /\ mFilePtr = 0
    /\ iLineNumber = 0
    /\ bLastWasEndLine = FALSE
    /\ lineHits = <<>>
    /\ stack = <<Frame("Parse")>>
    /\ fatal = <<>>
    /\ m_vMaterials = <<>>
    /\ m_vMeshes = <<>>
    /\ mesh = <<>>
    /\ pc = "parse"
    /\ warnings = <<>>
    /\ ub = {}
    /\ FacesIdle /\ UVIdle
    /\ MaterialsIdle
    /\ SceneIdle

ListNext ==
    \/ ParseStep
    \/ ObjectBlockStep
    \/ MeshBlockStep
    \/ MappingChannelStep
    \/ WeightsBlockStep
    \/ VertexListBlockStep
    \/ FaceListBlockStep
    \/ TListBlockStep
    \/ TFaceListBlockStep
    \/ CListBlockStep
    \/ CFaceListBlockStep
    \/ MeshBonesStep

SpecList == ListInit /\ [][ListNext]_vars

\* the array that the entries of the list of handler fn address
ListArray(fn, msh, iChannel) ==
    CASE fn = "ParseLV3MeshVertexListBlock" -> msh.mPositions
      [] fn = "ParseLV3MeshTListBlock" -> msh.amTexCoords[iChannel + 1]
      [] fn = "ParseLV3MeshCListBlock" -> msh.mVertexColors
      [] fn = "ParseLV4MeshBones" -> msh.mBones
      [] OTHER -> msh.mFaces

\* a list block is running and its cursor is at an entry that has an index
AtListEntry ==
    /\ pc = "parse"
    /\ Head(stack).fn \in ListHandlers
    /\ At(mFilePtr) = "*"
    /\ At(mFilePtr + 1) = EntryKeyword[Head(stack).fn]
    /\ IsSpace(At(mFilePtr + 2))
    /\ IsNumeric(At(SkipSpaces(Advance(PS, 3)).mFilePtr))

\* the index written in the entry
EntryIndex == strtoul10(SkipSpaces(Advance(PS, 3)), 0)

\* the warnings that the readers of the fields of the entry log: a bone name is
\* not read when the index is refused
EntryFieldWarnings ==
    LET fn == Head(stack).fn
        p1 == Advance(PS, 3)
        read == CASE fn \in {"ParseLV3MeshVertexListBlock", "ParseLV3MeshTListBlock"} ->
                         ParseLV4MeshRealTriple(p1).ps
                  [] fn = "ParseLV3MeshCListBlock" -> ParseLV4MeshFloatTriple(p1).ps
                  [] fn = "ParseLV3MeshFaceListBlock" -> ParseLV4MeshFace(p1).ps
                  [] fn = "ParseLV4MeshBones" -> p1
                  [] OTHER -> ParseLV4MeshLongTriple(p1).ps
    IN  SubSeq(read.warnings, Len(warnings) + 1, Len(read.warnings))

\* the warnings that the step adds
AddedWarnings == SubSeq(warnings', Len(warnings) + 1, Len(warnings'))

\* an entry never changes the length of its array nor an element other than the
\* one its index addresses, and leaves the array as it was when the index is at
\* or above the declared count
EntryFrame ==
    LET top == Head(stack)
        idx == EntryIndex.value
        before == ListArray(top.fn, mesh, top.iOld)
        after == ListArray(top.fn, mesh', top.iOld)
    IN  /\ Len(after) = Len(before)
        /\ \A j \in 1 .. Len(before) : j # idx + 1 => after[j] = before[j]
        /\ idx >= top.iNum => after = before

----------------------------------------------------------------------------
(* The face list handler run on one face record with a smoothing-group list *)

\* the group ids of the lists: one digit and two, below 32 and not, with each
\* kind of first digit
SmoothingIds == {0, 1, 8, 9, 19, 31, 32, 90}

\* the ids of a list, separated by sep
RECURSIVE SmoothingList(_, _)
SmoothingList(ids, sep) ==
    IF ids = <<>> THEN <<>>
    ELSE IF Len(ids) = 1 THEN Itoa10(ids[1])
    ELSE Itoa10(ids[1]) \o sep \o SmoothingList(Tail(ids), sep)

\* "{ *MESH_FACE 0: A: 0 B:1 C: 2 AB: 1 *MESH_SMOOTHING <ids> <rest> }"
FaceRecord(ids, sep, rest) ==
    <<"{">> \o Keyword("MESH_FACE")
        \o <<"0", ":", SP, "A", ":", SP, "0", SP, "B", ":", "1", SP, "C", ":", TAB, "2", SP,
             "AB:", SP, "1", SP, "*", "MESH_SMOOTHING", SP>>
        \o SmoothingList(ids, sep) \o rest \o <<"}", NUL>>

Separators == {<<",">>, <<",", SP>>, <<SP, ",", SP>>}
RecordEnds == {<<LF>>, <<SP, "*", "MESH_MTLID", SP, "7", LF>>}

\* ParseLV3MeshFaceListBlock called for a mesh with one face
FaceInit ==
    /\ \E ids \in SeqsUpTo(SmoothingIds, MaxGroups), sep \in Separators, rest \in RecordEnds :
          input = FaceRecord(ids, sep, rest)
    /\ mEnd = Len(input) - 1
    /\ mFilePtr = 0
    /\ iLineNumber = 0
    /\ bLastWasEndLine = FALSE
    /\ lineHits = <<>>
    /\ stack = <<[Frame("ParseLV3MeshFaceListBlock") EXCEPT !.iNum = 1]>>
    /\ fatal = <<>>
    /\ m_vMaterials = <<>>
    /\ m_vMeshes = <<>>
    /\ mesh = [NewMesh EXCEPT !.mFaces = <<DefaultFace>>]
    /\ pc = "parse"
    /\ warnings = <<>>
    /\ ub = {}
    /\ FacesIdle /\ UVIdle
    /\ MaterialsIdle
    /\ SceneIdle

FaceNext == FaceListBlockStep

SpecFace == FaceInit /\ [][FaceNext]_vars

\* the ids of ids that are below 32, and the others in the order of the list
GroupsBelow32(ids) == {ids[k] : k \in {j \in 1 .. Len(ids) : ids[j] < 32}}
GroupsFrom32(ids) == SelectSeq(ids, LAMBDA g : g >= 32)

\* C17: after the face record with the list ids of smoothing groups (a list of
\* one id or more) the mask of
\* the face has the bit g set for exactly the ids g < 32 of the list, whatever
\* their first digit, and the log has one warning for each id >= 32 of the
\* list, in the order of the list, and no other
C17_SmoothingMask ==
    \A ids \in SeqsUpTo(SmoothingIds, MaxGroups), sep \in Separators, rest \in RecordEnds :
        (pc = "done" /\ ids # <<>> /\ input = FaceRecord(ids, sep, rest)) =>
            /\ mesh.mFaces[1].iSmoothGroup = GroupsBelow32(ids)
            /\ warnings = [k \in 1 .. Len(GroupsFrom32(ids)) |->
                               [line |-> 0, msg |-> SmoothGroupWarning(GroupsFrom32(ids)[k])]]

----------------------------------------------------------------------------
(* Parser::SkipSection called before the opening brace of a section *)

\* the pieces of the sections: braces, a line end, an entry, a space
SkipChunks == {<<"{">>, <<"}">>, <<LF>>, <<"*", "MESH_VERTEX", SP, "0">>, <<SP>>}

\* what stands between the cursor and the opening brace
BeforeBrace == {<<>>, <<SP>>, <<CR, LF>>}

SkipInit ==
    /\ \E before \in BeforeBrace, cs \in SeqsUpTo(SkipChunks, MaxSkip) :
          input = before \o <<"{">> \o Flatten(cs) \o <<NUL>>
    /\ mEnd = Len(input) - 1
    /\ mFilePtr = 0
    /\ iLineNumber = 0
    /\ bLastWasEndLine = FALSE
    /\ lineHits = <<>>
    /\ stack = <<Frame("ParseLV2MeshBlock")>>
    /\ fatal = <<>>
    /\ m_vMaterials = <<Material("INVALID")>>
    /\ m_vMeshes = <<"UNNAMED">>
    /\ mesh = NewMesh
    /\ pc = "SkipSection"
    /\ warnings = <<>>
    /\ ub = {}
    /\ FacesIdle /\ UVIdle
    /\ MaterialsIdle
    /\ SceneIdle

\* the call of SkipSection(): pc tells the value returned
SkipSectionStep ==
    /\ pc = "SkipSection"
    /\ LET r == SkipSectionLoop(PS, 0)
       IN  /\ mFilePtr' = r.ps.mFilePtr
           /\ iLineNumber' = r.ps.iLineNumber
           /\ bLastWasEndLine' = r.ps.bLastWasEndLine
           /\ lineHits' = r.ps.lineHits
           /\ warnings' = r.ps.warnings
           /\ pc' = IF r.result THEN "returned true" ELSE "returned false"
    /\ UNCHANGED <<ub, input, mEnd, stack, fatal, m_vMaterials, m_vMeshes, mesh, notAseVars>>

SkipNext == SkipSectionStep

SpecSkip == SkipInit /\ [][SkipNext]_vars

\* offset of the first opening brace
OpeningBrace == CHOOSE q \in 0 .. mEnd : At(q) = "{" /\ \A o \in 0 .. q - 1 : At(o) # "{"

\* the braces of the offsets from .. to are balanced
Opened(from, to) == Cardinality({o \in from .. to : At(o) = "{"})
Closed(from, to) == Cardinality({o \in from .. to : At(o) = "}"})

\* the offsets of the closing brace that matches the opening brace: the first
\* offset up to which as many braces are closed as are opened
Matches(q) == At(q) = "}" /\ Opened(OpeningBrace, q) = Closed(OpeningBrace, q)
MatchingBrace == {q \in OpeningBrace .. mEnd :
                     Matches(q) /\ \A o \in OpeningBrace .. q - 1 : ~Matches(o)}

\* C19: SkipSection called before the opening brace of a section returns true
\* with the cursor past the closing brace that matches this opening brace, on the
\* next token after it (or on the end of the input), nested blocks skipped whole;
\* when the input ends before that brace it logs one warning, returns false and
\* raises no fatal error; it changes no field of the parsed model
C19_SkipSection ==
    pc # "SkipSection" =>
        /\ \A q \in MatchingBrace :
              /\ pc = "returned true"
              /\ mFilePtr > q
              /\ \A o \in q + 1 .. mFilePtr - 1 : At(o) \notin {"*", "{", "}", NUL}
              /\ At(mFilePtr) \in {"*", "{", "}", NUL}
              /\ warnings = <<>>
        /\ MatchingBrace = {} =>
              /\ pc = "returned false"
              /\ At(mFilePtr) = NUL
              /\ warnings = <<[line |-> iLineNumber, msg |-> EofWarning]>>
        /\ fatal = <<>>
        /\ m_vMaterials = <<Material("INVALID")>> /\ m_vMeshes = <<"UNNAMED">> /\ mesh = NewMesh
        /\ stack = <<Frame("ParseLV2MeshBlock")>>

\* a section with a nested block, after a line end, and a brace behind it: the
\* line end and "{{}}" are skipped, the cursor is on the brace that follows
C19_Witness ==
    /\ pc = "returned true"
    /\ input = <<CR, LF, "{", "{", "}", "}", "}", NUL>>
    /\ mFilePtr = 6

\* a section that the input cuts short
C19_WitnessEof ==
    /\ pc = "returned false"
    /\ input = <<SP, "{", "{", "}", LF, NUL>>
    /\ mFilePtr = 5


----------------------------------------------------------------------------
(* ASEParser.cpp: the weights block of a mesh with one bone vertex list *)

MeshBonesVerticesStep ==
    /\ Running("ParseLV4MeshBonesVertices")
    /\ Commit(ParseLV4MeshBonesVertices(PS, Head(stack)))

\* the bone index that reads as -1
MinusOne == <<"6", "5", "5", "3", "5">>

\* an entry is written with one or two (bone, weight) pairs, with the bone index
\* -1, cut after its index, or followed by a nested block
BoneVertexEntries ==
    [index : 0 .. MaxIndex, form : {"one", "two", "minus", "short", "block"}]

\* the line of the entry at place j of the list: the position j, j + 1, j - 1,
\* then the pairs (bone j - 1, weight j) and (bone j, weight j + 1)
BoneVertexText(e, j) ==
    LET start == Keyword("MESH_BONE_VERTEX") \o <<Digit(e.index)>>
        afVert == <<SP, Digit(j), SP, Digit(j + 1), TAB, Digit(j - 1)>>
    IN  CASE e.form = "one" -> start \o afVert \o <<SP, Digit(j - 1), SP, Digit(j), LF>>
          [] e.form = "two" ->
                 start \o afVert
                     \o <<SP, Digit(j - 1), SP, Digit(j), TAB, Digit(j), SP, Digit(j + 1), LF>>
          [] e.form = "minus" -> start \o afVert \o <<SP>> \o MinusOne \o <<SP, Digit(j), LF>>
          [] e.form = "short" -> start \o <<LF>>
          [] e.form = "block" -> start \o <<SP, "{", "}", LF>>

RECURSIVE BoneVerticesText(_, _)
BoneVerticesText(es, j) ==
    IF es = <<>> THEN <<>> ELSE BoneVertexText(Head(es), j) \o BoneVerticesText(Tail(es), j + 1)

\* "{ *MESH_NUMVERTEX <count>*MESH_BONE_VERTEX_LIST { <entries> } }"
WeightsBlock(cnt, es) ==
    <<"{">> \o Keyword("MESH_NUMVERTEX") \o <<Digit(cnt)>>
        \o Keyword("MESH_BONE_VERTEX_LIST") \o <<"{">> \o BoneVerticesText(es, 1)
        \o <<"}", "}", NUL>>

\* ParseLV3MeshWeightsBlock has just been called for a new mesh
WeightsInit ==
    /\ \E cnt \in 0 .. MaxIndex, es \in SeqsUpTo(BoneVertexEntries, MaxEntries) :
          input = WeightsBlock(cnt, es)
    /\ mEnd = Len(input) - 1
    /\ mFilePtr = 0
    /\ iLineNumber = 0
    /\ bLastWasEndLine = FALSE
    /\ lineHits = <<>>
    /\ stack = <<Frame("ParseLV3MeshWeightsBlock")>>
    /\ fatal = <<>>
    /\ m_vMaterials = <<>>
    /\ m_vMeshes = <<>>
    /\ mesh = NewMesh
    /\ pc = "parse"
    /\ warnings = <<>>
    /\ ub = {}
    /\ FacesIdle /\ UVIdle
    /\ MaterialsIdle
    /\ SceneIdle

WeightsNext == WeightsBlockStep \/ MeshBonesVerticesStep

SpecWeights == WeightsInit /\ [][WeightsNext]_vars

\* the count that the file declares
DeclaredCount == DigitValue(input[5])

\* the handler is at the start of an entry, and the index written there
AtBoneVertex ==
    /\ Running("ParseLV4MeshBonesVertices")
    /\ At(mFilePtr) = "*"
    /\ At(mFilePtr + 1) = "MESH_BONE_VERTEX"
WrittenIndex == DigitValue(At(mFilePtr + 3))

\* the elements of the array other than element iKept are left as they are
OthersKept(iKept) ==
    \A k \in 1 .. Len(mesh.mBoneVertices) :
        k # iKept + 1 => mesh'.mBoneVertices[k] = mesh.mBoneVertices[k]

\* an entry is handled: nothing but the addressed element changes, the one of
\* the largest index when the written index is not below the declared count,
\* which is warned of; the weights of an element only grow
BoneVertexEntryStep ==
    AtBoneVertex =>
        /\ IF WrittenIndex >= DeclaredCount
           THEN /\ \E w \in Len(warnings) + 1 .. Len(warnings') :
                       warnings'[w].msg = BoneVertexWarning
                /\ OthersKept(DeclaredCount - 1)
           ELSE OthersKept(WrittenIndex)
        /\ \A k \in 1 .. Len(mesh.mBoneVertices) :
               /\ Len(mesh'.mBoneVertices[k].mBoneWeights)
                      >= Len(mesh.mBoneVertices[k].mBoneWeights)
               /\ SubSeq(mesh'.mBoneVertices[k].mBoneWeights, 1,
                         Len(mesh.mBoneVertices[k].mBoneWeights))
                      = mesh.mBoneVertices[k].mBoneWeights

----------------------------------------------------------------------------
(* ASEParser.cpp: the material list blocks of a file *)

\* the bodies of a material entry: its name alone, or the name and submaterial
\* declarations
MaterialBodies == {"plain", "sub", "counted", "recounted"}

\* what a material list holds: counts and entries
MaterialItems ==
    [count : {0, 2}] \cup [index : {0, 1, 2}, body : MaterialBodies]

NameText(letter, j) == Keyword("MATERIAL_NAME") \o <<QUOTE, letter, Digit(j), QUOTE, LF>>

\* "*SUBMATERIAL <index> { *MATERIAL_NAME "s<j>" }"
SubMaterialText(index, j) ==
    Keyword("SUBMATERIAL") \o <<Digit(index), SP, "{", LF>> \o NameText("s", j) \o <<"}", LF>>

SubCountText(cnt) == Keyword("NUMSUBMTLS") \o <<Digit(cnt), LF>>

\* the item at place j of a list
MaterialItemText(item, j) ==
    IF "count" \in DOMAIN item
    THEN Keyword("MATERIAL_COUNT") \o <<Digit(item.count), LF>>
    ELSE Keyword("MATERIAL") \o <<Digit(item.index), SP, "{", LF>> \o NameText("m", j)
             \o (CASE item.body = "plain" -> <<>>
                   [] item.body = "sub" -> SubMaterialText(1, j)
                   [] item.body = "counted" -> SubCountText(2) \o SubMaterialText(2, j)
                   [] item.body = "recounted" ->
                          SubCountText(2) \o SubMaterialText(0, j) \o SubCountText(0)
                              \o SubMaterialText(1, j + 1))
             \o <<"}", LF>>

RECURSIVE MaterialItemsText(_, _)
MaterialItemsText(items, j) ==
    IF items = <<>> THEN <<>>
    ELSE MaterialItemText(Head(items), j) \o MaterialItemsText(Tail(items), j + 1)

MaterialListText(items) ==
    Keyword("MATERIAL_LIST") \o <<"{", LF>> \o MaterialItemsText(items, 1) \o <<"}", LF>>

\* an earlier list with one named material
EarlierList ==
    Keyword("MATERIAL_LIST") \o <<"{", LF>> \o Keyword("MATERIAL_COUNT") \o <<"1", LF>>
        \o Keyword("MATERIAL") \o <<"0", SP, "{", LF>>
        \o Keyword("MATERIAL_NAME") \o <<QUOTE, "old", QUOTE, LF, "}", LF, "}", LF>>

MaterialListInit ==
    /\ \E items \in SeqsUpTo(MaterialItems, MaxItems), earlier \in {<<>>, EarlierList} :
          input = earlier \o MaterialListText(items) \o <<NUL>>
    /\ mEnd = Len(input) - 1
    /\ mFilePtr = 0
    /\ iLineNumber = 0
    /\ bLastWasEndLine = FALSE
    /\ lineHits = <<>>
    /\ stack = <<Frame("Parse")>>
    /\ fatal = <<>>
    /\ m_vMaterials = <<>>
    /\ m_vMeshes = <<>>
    /\ mesh = <<>>
    /\ pc = "parse"
    /\ warnings = <<>>
    /\ ub = {}
    /\ FacesIdle /\ UVIdle
    /\ MaterialsIdle
    /\ SceneIdle

MaterialListNext == ParseStep \/ MaterialListBlockStep \/ MaterialBlockStep

SpecMaterialList == MaterialListInit /\ [][MaterialListNext]_vars

\* a handler is at a *MATERIAL entry of a list, or at a *SUBMATERIAL entry of a
\* material
AtMaterial ==
    /\ Running("ParseLV1MaterialListBlock")
    /\ At(mFilePtr) = "*"
    /\ At(mFilePtr + 1) = "MATERIAL"
AtSubMaterial ==
    /\ Running("ParseLV2MaterialBlock")
    /\ At(mFilePtr) = "*"
    /\ At(mFilePtr + 1) = "SUBMATERIAL"

\* a warning with this text is logged by the step
Warned(text) == \E w \in Len(warnings) + 1 .. Len(warnings') : warnings'[w].msg = text

\* the count in force for an entry when the declared count is cnt, and the
\* index at which the entry with the written index is to be stored
CountInForce(cnt) == IF cnt = 0 THEN 1 ELSE cnt
StoredIndex(cnt) ==
    IF WrittenIndex >= CountInForce(cnt) THEN CountInForce(cnt) - 1 ELSE WrittenIndex

\* the path leads to a material of the list
RECURSIVE PathInside(_, _)
PathInside(mats, path) ==
    /\ path # <<>>
    /\ path[1] < Len(mats)
    /\ Len(path) > 1 => PathInside(mats[path[1] + 1].avSubMaterials, Tail(path))

\* a material entry: with no count in force the block's part of the list comes
\* to hold one material, with the warning; the material block is entered for
\* the material at the written index, or at the last index with the warning
MaterialEntryStep ==
    AtMaterial =>
        LET top == Head(stack)
        IN  /\ top.iNum = 0 =>
                  /\ Len(m_vMaterials') = top.iOld + 1
                  /\ Warned("*MATERIAL_COUNT unspecified or 0")
            /\ WrittenIndex >= CountInForce(top.iNum) =>
                  Warned("Out of range: material index is too large")
            /\ Len(stack') = Len(stack) + 1
            /\ Head(stack').fn = "ParseLV2MaterialBlock"
            /\ Head(stack').path = <<top.iOld + StoredIndex(top.iNum)>>
            /\ top.iOld + StoredIndex(top.iNum) < Len(m_vMaterials')

\* a submaterial entry, likewise
SubMaterialEntryStep ==
    AtSubMaterial =>
        LET top == Head(stack)
            subs == MaterialAt(m_vMaterials', top.path).avSubMaterials
        IN  /\ top.iNumSubMaterials = 0 =>
                  /\ Len(subs) = 1
                  /\ Warned("*NUMSUBMTLS unspecified or 0")
            /\ WrittenIndex >= CountInForce(top.iNumSubMaterials) =>
                  Warned("Out of range: submaterial index is too large")
            /\ Len(stack') = Len(stack) + 1
            /\ Head(stack').fn = "ParseLV2MaterialBlock"
            /\ Head(stack').path = top.path \o <<StoredIndex(top.iNumSubMaterials)>>
            /\ StoredIndex(top.iNumSubMaterials) < Len(subs)

\* the materials that the list held when a running list block began are kept
EarlierMaterialsKept ==
    \A f \in 1 .. Len(stack) :
        stack[f].fn = "ParseLV1MaterialListBlock" =>
            /\ Len(m_vMaterials') >= stack[f].iOld
            /\ SubSeq(m_vMaterials', 1, stack[f].iOld) = SubSeq(m_vMaterials, 1, stack[f].iOld)

\* C21: a *MATERIAL or *SUBMATERIAL entry met with no count or the count 0 makes
\* the list hold exactly one (sub)material, with a warning; an index not below
\* the count is replaced by count-1 with a warning; whatever the order of counts
\* and entries, the material that a material block fills is inside its list, and
\* the materials of earlier lists are never changed
C21_MaterialLists ==
    /\ [][MaterialEntryStep]_vars
    /\ [][SubMaterialEntryStep]_vars
    /\ [](ub = {})
    /\ [](Running("ParseLV2MaterialBlock") => PathInside(m_vMaterials, Head(stack).path))
    /\ [][EarlierMaterialsKept]_vars

\* after a list with the material "old", a list without a count and the entry
\* 2: the entry is the one material of the second list
C21_Witness ==
    /\ pc = "done"
    /\ input = EarlierList \o MaterialListText(<<[index |-> 2, body |-> "plain"]>>) \o <<NUL>>
    /\ m_vMaterials = <<[Material("INVALID") EXCEPT !.mName = <<"old">>],
                        [Material("INVALID") EXCEPT !.mName = <<"m", "1">>]>>
    /\ \E w \in 1 .. Len(warnings) : warnings[w].msg = "*MATERIAL_COUNT unspecified or 0"
    /\ \E w \in 1 .. Len(warnings) :
           warnings[w].msg = "Out of range: material index is too large"


----------------------------------------------------------------------------
(* ASEParser.cpp: the animation block of a node *)

\* ASSIMP_LOG_ERROR(msg): a log entry that carries no line number
AssimpLogError(ps, msg) == [ps EXCEPT !.warnings = Append(@, [line |-> 0, msg |-> msg])]

\* the test of ParseLV2AnimationBlock for a node that can have no target channel
NotTargetCamera(mType, mSubType) == mType # "Camera" \/ mSubType # "TARGET"

NotTargetNode(mType, mSubType) ==
    /\ mType # "Camera" \/ mSubType # "TARGET"
    /\ mType # "Light" \/ mSubType # "TARGET"

\* std::string::find(".Target") on the name read
HasTargetSuffix(name) == \E k \in 1 .. Len(name) : name[k] = ".Target"

\* the calls of the track handlers with the channel set *anim
CallAnimationBlock(ps, top, fn) == Call(ps, top, [Frame(fn) EXCEPT !.anim = top.anim])

\* Parser::ParseLV2AnimationBlock: mType and mSubType are those of the node, anim
\* is the local pointer, set to "mAnim" when the handler is entered
ParseLV2AnimationBlock(ps, top) ==
    IF At(ps.mFilePtr) = "*"
    THEN LET p1 == Advance(ps, 1)
             temp == ParseString(TokenMatch(p1, "NODE_NAME"), "*NODE_NAME")
             p2 == IF temp.ok THEN temp.ps ELSE SkipToNextToken(temp.ps)
             pos == TokenMatch(p1, "CONTROL_POS_TRACK")
             scale == TokenMatch(p1, "CONTROL_SCALE_TRACK")
             rot == TokenMatch(p1, "CONTROL_ROT_TRACK")
             ignored == top.anim \in {"nullptr", "mTargetAnim"}
         IN  IF TokenMatches(p1, "NODE_NAME")
             THEN IF HasTargetSuffix(temp.out)
                  THEN IF NotTargetNode(top.mType, top.mSubType)
                       THEN Continue(AssimpLogError(p2, "ASE: Found target animation channel but the node is neither a camera nor a spot light"),
                                     [top EXCEPT !.anim = "nullptr"])
                       ELSE Continue(p2, [top EXCEPT !.anim = "mTargetAnim"])
                  ELSE Continue(p2, top)
             ELSE IF TokenMatches(p1, "CONTROL_POS_TRACK")
             THEN IF top.anim = "nullptr" THEN Continue(SkipSection(pos), top)
                  ELSE CallAnimationBlock(pos, top, "ParseLV3PosAnimationBlock")
             ELSE IF TokenMatches(p1, "CONTROL_SCALE_TRACK")
             THEN IF ignored
                  THEN Continue(SkipSection(AssimpLogError(scale, "ASE: Ignoring scaling channel in target animation")),
                                top)
                  ELSE CallAnimationBlock(scale, top, "ParseLV3ScaleAnimationBlock")
             ELSE IF TokenMatches(p1, "CONTROL_ROT_TRACK")
             THEN IF ignored
                  THEN Continue(SkipSection(AssimpLogError(rot, "ASE: Ignoring rotation channel in target animation")),
                                top)
                  ELSE CallAnimationBlock(rot, top, "ParseLV3RotAnimationBlock")
             ELSE HandleSection(p1, top, "2", "TM_ANIMATION")
    ELSE HandleSection(ps, top, "2", "TM_ANIMATION")

\* the channel set that anim names, with a key appended to one of its lists; the
\* section macro follows at the cursor after the key (no continue)
KeyAdded(top, keys, key, after, msg) ==
    LET added == [mesh[top.anim] EXCEPT ![keys] = Append(@, key)]
    IN  [HandleSection(after, top, "3", msg) EXCEPT !.mesh[top.anim] = added]

\* Parser::ParseLV3PosAnimationBlock
ParseLV3PosAnimationBlock(ps, top) ==
    IF At(ps.mFilePtr) = "*"
    THEN LET p1 == Advance(ps, 1)
             key == ParseLV4MeshRealTriple(TokenMatch(p1, "CONTROL_POS_SAMPLE"))
         IN  IF TokenMatches(p1, "CONTROL_POS_SAMPLE")
             THEN IF key.thrown
                  THEN [NotARealNumber(key.ps, top) EXCEPT !.mesh[top.anim].akeyPositions =
                           Append(@, [mTime |-> 0, mValue |-> key.value])]
                  ELSE KeyAdded(top, "akeyPositions",
                                [mTime |-> key.index, mValue |-> key.value], key.ps,
                                "*CONTROL_POS_TRACK")
             ELSE HandleSection(p1, top, "3", "*CONTROL_POS_TRACK")
    ELSE HandleSection(ps, top, "3", "*CONTROL_POS_TRACK")

\* Parser::ParseLV3ScaleAnimationBlock
ParseLV3ScaleAnimationBlock(ps, top) ==
    IF At(ps.mFilePtr) = "*"
    THEN LET p1 == Advance(ps, 1)
             key == ParseLV4MeshRealTriple(TokenMatch(p1, "CONTROL_SCALE_SAMPLE"))
         IN  IF TokenMatches(p1, "CONTROL_SCALE_SAMPLE")
             THEN IF key.thrown
                  THEN [NotARealNumber(key.ps, top) EXCEPT !.mesh[top.anim].akeyScaling =
                           Append(@, [mTime |-> 0, mValue |-> key.value])]
                  ELSE KeyAdded(top, "akeyScaling",
                                [mTime |-> key.index, mValue |-> key.value], key.ps,
                                "*CONTROL_POS_TRACK")
             ELSE HandleSection(p1, top, "3", "*CONTROL_POS_TRACK")
    ELSE HandleSection(ps, top, "3", "*CONTROL_POS_TRACK")

\* Parser::ParseLV3RotAnimationBlock: the key is the axis and the angle
ParseLV3RotAnimationBlock(ps, top) ==
    IF At(ps.mFilePtr) = "*"
    THEN LET p1 == Advance(ps, 1)
             v == ParseLV4MeshRealTriple(TokenMatch(p1, "CONTROL_ROT_SAMPLE"))
             f == ParseLV4MeshReal(v.ps)
         IN  IF TokenMatches(p1, "CONTROL_ROT_SAMPLE")
             THEN IF v.thrown \/ f.thrown
                  THEN [NotARealNumber(IF v.thrown THEN v.ps ELSE f.ps, top)
                           EXCEPT !.mesh[top.anim].akeyRotations =
                               Append(@, [mTime |-> 0, mValue |-> <<>>])]
                  ELSE KeyAdded(top, "akeyRotations",
                                [mTime |-> v.index, mValue |-> Append(v.value, f.value)], f.ps,
                                "*CONTROL_ROT_TRACK")
             ELSE HandleSection(p1, top, "3", "*CONTROL_ROT_TRACK")
    ELSE HandleSection(ps, top, "3", "*CONTROL_ROT_TRACK")

AnimationBlockStep ==
    Running("ParseLV2AnimationBlock") /\ Commit(ParseLV2AnimationBlock(PS, Head(stack)))
PosAnimationBlockStep ==
    Running("ParseLV3PosAnimationBlock") /\ Commit(ParseLV3PosAnimationBlock(PS, Head(stack)))
ScaleAnimationBlockStep ==
    /\ Running("ParseLV3ScaleAnimationBlock")
    /\ Commit(ParseLV3ScaleAnimationBlock(PS, Head(stack)))
RotAnimationBlockStep ==
    Running("ParseLV3RotAnimationBlock") /\ Commit(ParseLV3RotAnimationBlock(PS, Head(stack)))

\* the nodes: type and camera or light type
NodeKinds ==
    {<<"Mesh", "None">>, <<"Camera", "TARGET">>, <<"Camera", "FREE">>,
     <<"Light", "TARGET">>, <<"Light", "OMNI">>}

\* what an animation block holds: names, and tracks with one sample each
AnimationItems == {"name", "target name", "pos", "scale", "rot"}

AnimationItemText(item, j) ==
    CASE item = "name" -> Keyword("NODE_NAME") \o <<QUOTE, "Node", QUOTE, LF>>
      [] item = "target name" -> Keyword("NODE_NAME") \o <<QUOTE, "Node", ".Target", QUOTE, LF>>
      [] item = "pos" ->
             Keyword("CONTROL_POS_TRACK") \o <<"{", LF>> \o Keyword("CONTROL_POS_SAMPLE")
                 \o <<Digit(j), SP, "1", SP, "2", SP, "3", LF, "}", LF>>
      [] item = "scale" ->
             Keyword("CONTROL_SCALE_TRACK") \o <<"{", LF>> \o Keyword("CONTROL_SCALE_SAMPLE")
                 \o <<Digit(j), SP, "1", SP, "2", SP, "3", LF, "}", LF>>
      [] item = "rot" ->
             Keyword("CONTROL_ROT_TRACK") \o <<"{", LF>> \o Keyword("CONTROL_ROT_SAMPLE")
                 \o <<Digit(j), SP, "1", SP, "2", SP, "3", SP, "4", LF, "}", LF>>

RECURSIVE AnimationItemsText(_, _)
AnimationItemsText(items, j) ==
    IF items = <<>> THEN <<>>
    ELSE AnimationItemText(Head(items), j) \o AnimationItemsText(Tail(items), j + 1)

\* ParseLV2AnimationBlock has just been called for a node: "{ <items> }"
AnimationInit ==
    /\ \E items \in SeqsUpTo(AnimationItems, MaxItems + 1) :
          input = <<"{", LF>> \o AnimationItemsText(items, 1) \o <<"}", LF, NUL>>
    /\ mEnd = Len(input) - 1
    /\ mFilePtr = 0
    /\ iLineNumber = 0
    /\ bLastWasEndLine = FALSE
    /\ lineHits = <<>>
    /\ \E kind \in NodeKinds :
          stack = <<[Frame("ParseLV2AnimationBlock")
                        EXCEPT !.mType = kind[1], !.mSubType = kind[2], !.anim = "mAnim"]>>
    /\ fatal = <<>>
    /\ m_vMaterials = <<>>
    /\ m_vMeshes = <<>>
    /\ mesh = NewMesh
    /\ pc = "parse"
    /\ warnings = <<>>
    /\ ub = {}
    /\ FacesIdle /\ UVIdle
    /\ MaterialsIdle
    /\ SceneIdle

AnimationNext ==
    \/ AnimationBlockStep
    \/ PosAnimationBlockStep
    \/ ScaleAnimationBlockStep
    \/ RotAnimationBlockStep

SpecAnimation == AnimationInit /\ [][AnimationNext]_vars

\* the node of the block, which is the bottom frame's
BlockNode == stack[Len(stack)]
TargetNode ==
    /\ BlockNode.mType \in {"Camera", "Light"}
    /\ BlockNode.mSubType = "TARGET"

\* a *NODE_NAME with ".Target" in it has been read
TargetNameRead == \E k \in 1 .. Len(input) : input[k] = ".Target" /\ k <= mFilePtr

\* the handler is at a track section of the block, or at a sample of a position
\* track
AtTrack ==
    /\ Running("ParseLV2AnimationBlock")
    /\ At(mFilePtr) = "*"
    /\ At(mFilePtr + 1) \in {"CONTROL_POS_TRACK", "CONTROL_SCALE_TRACK", "CONTROL_ROT_TRACK"}
AtPosSample ==
    /\ Running("ParseLV3PosAnimationBlock")
    /\ At(mFilePtr) = "*"
    /\ At(mFilePtr + 1) = "CONTROL_POS_SAMPLE"

\* after a target name on a node without a target: both channel sets stay as
\* they are and no track handler is called
TargetNameOnOtherNode ==
    (pc = "parse" /\ TargetNameRead /\ ~TargetNode) =>
        /\ mesh'.mAnim = mesh.mAnim
        /\ mesh'.mTargetAnim = mesh.mTargetAnim
        /\ Len(stack') <= 1
        /\ AtTrack => At(mFilePtr' - 2) = "}"

\* after a target name on a target camera or light: the node's own set and the
\* rotation and scaling keys of the target set stay as they are, a rotation or
\* scaling track is passed over, and a position sample is added to the target set
TargetNameOnTargetNode ==
    (pc = "parse" /\ TargetNameRead /\ TargetNode) =>
        /\ mesh'.mAnim = mesh.mAnim
        /\ mesh'.mTargetAnim.akeyRotations = mesh.mTargetAnim.akeyRotations
        /\ mesh'.mTargetAnim.akeyScaling = mesh.mTargetAnim.akeyScaling
        /\ (AtTrack /\ At(mFilePtr + 1) # "CONTROL_POS_TRACK") =>
               Len(stack') = 1 /\ At(mFilePtr' - 2) = "}"
        /\ (AtTrack /\ At(mFilePtr + 1) = "CONTROL_POS_TRACK") =>
               Head(stack').fn = "ParseLV3PosAnimationBlock"
        /\ AtPosSample =>
               mesh'.mTargetAnim.akeyPositions =
                   Append(mesh.mTargetAnim.akeyPositions,
                          [mTime |-> WrittenIndex, mValue |-> <<1, 2, 3>>])

\* C22: in an animation block, once a *NODE_NAME with ".Target" was read, a node
\* that is no target camera or light gets no keyframe in either channel set and
\* every track section is skipped; a target camera or light gets the position
\* keyframes that follow in its target set only, its rotation and scaling tracks
\* are skipped, and its own channel set is unchanged
C22_TargetChannel == [][TargetNameOnOtherNode]_vars /\ [][TargetNameOnTargetNode]_vars

\* a target light whose block names the target and then holds a position and a
\* rotation track: one position key in the target set, nothing else
C22_Witness ==
    /\ pc = "done"
    /\ input = <<"{", LF>> \o AnimationItemsText(<<"target name", "pos", "rot">>, 1)
                   \o <<"}", LF, NUL>>
    /\ mesh.mTargetAnim =
           [Animation EXCEPT !.akeyPositions = <<[mTime |-> 2, mValue |-> <<1, 2, 3>>]>>]
    /\ mesh.mAnim = Animation


----------------------------------------------------------------------------
(* ASEParser.cpp: the soft skin block of the old file format *)

\* SkipSpacesAndLineEnd(&mFilePtr, mEnd) and SkipLine(&mFilePtr, mEnd)
RECURSIVE SkipSpacesAndLineEnd(_)
SkipSpacesAndLineEnd(ps) ==
    IF At(ps.mFilePtr) \in {SP, TAB, CR, LF} /\ ps.mFilePtr # mEnd
    THEN SkipSpacesAndLineEnd(Advance(ps, 1))
    ELSE ps

RECURSIVE SkipLineEnds(_)
SkipLineEnds(ps) ==
    IF At(ps.mFilePtr) \in {CR, LF} /\ ps.mFilePtr # mEnd THEN SkipLineEnds(Advance(ps, 1))
    ELSE ps

RECURSIVE SkipLine(_)
SkipLine(ps) ==
    IF At(ps.mFilePtr) \notin {CR, LF, NUL} /\ ps.mFilePtr # mEnd THEN SkipLine(Advance(ps, 1))
    ELSE SkipLineEnds(ps)

\* while (!IsSpaceOrNewLine(*mFilePtr)) ++mFilePtr
RECURSIVE NameEnd(_)
NameEnd(ps) == IF IsSpaceOrNewLine(At(ps.mFilePtr)) THEN ps ELSE NameEnd(Advance(ps, 1))

\* the data of an unknown mesh is passed over line by line, to the next mesh or
\* to the end of the section
RECURSIVE SkipMeshData(_)
SkipMeshData(ps) ==
    LET p1 == SkipSpacesAndLineEnd(ps)
    IN  IF At(p1.mFilePtr) = "}" THEN [ps |-> Advance(p1, 1), returned |-> TRUE]
        ELSE IF ~IsNumeric(At(p1.mFilePtr)) THEN [ps |-> p1, returned |-> FALSE]
        ELSE SkipMeshData(SkipLine(p1))

\* the search of a bone by its name: the index of the bone found, -1 if none
LastBoneNamed(mBones, bone) ==
    LET found == {n \in 1 .. Len(mBones) : mBones[n].mName = bone}
    IN  IF found = {} THEN -1 ELSE (CHOOSE n \in found : \A m \in found : m <= n) - 1

FirstBoneNamed(mBones, bone) ==
    LET found == {n \in 1 .. Len(mBones) : mBones[n].mName = bone}
    IN  IF found = {} THEN -1 ELSE (CHOOSE n \in found : \A m \in found : n <= m) - 1

\* the loop over the numWeights (bone name, weight) pairs of a vertex
RECURSIVE SoftSkinWeights(_, _, _, _)
SoftSkinWeights(ps, numWeights, mBones, mBoneWeights) ==
    LET bone == ParseString(ps, "*MESH_SOFTSKINVERTS.Bone")
        n == FirstBoneNamed(mBones, bone.out)
        first == IF n = -1 THEN Len(mBones) ELSE n
        bones == IF n = -1 THEN Append(mBones, Bone(bone.out)) ELSE mBones
        second == ParseLV4MeshReal(bone.ps)
    IN  IF numWeights = 0
        THEN [ps |-> ps, mBones |-> mBones, mBoneWeights |-> mBoneWeights, thrown |-> FALSE]
        ELSE IF second.thrown
        THEN [ps |-> second.ps, mBones |-> bones, mBoneWeights |-> mBoneWeights,
              thrown |-> TRUE]
        ELSE SoftSkinWeights(second.ps, numWeights - 1, bones,
                             Append(mBoneWeights, <<first, second.value>>))

\* the loop over the numVerts vertices of a mesh
RECURSIVE SoftSkinVertices(_, _, _, _)
SoftSkinVertices(ps, numVerts, mBones, mBoneVertices) ==
    LET numWeights == ParseLV4MeshLong(SkipSpacesAndLineEnd(ps))
        vert == SoftSkinWeights(numWeights.ps, numWeights.value, mBones, <<>>)
        verts == Append(mBoneVertices, [mBoneWeights |-> vert.mBoneWeights])
    IN  IF numVerts = 0
        THEN [ps |-> ps, mBones |-> mBones, mBoneVertices |-> mBoneVertices, thrown |-> FALSE]
        ELSE IF vert.thrown
        THEN [ps |-> vert.ps, mBones |-> vert.mBones, mBoneVertices |-> verts, thrown |-> TRUE]
        ELSE SoftSkinVertices(vert.ps, numVerts - 1, vert.mBones, verts)

\* the end of an iteration: if (*mFilePtr == '\0') return; ++mFilePtr;
\* SkipSpacesAndLineEnd
SoftSkinNext(ps, top) ==
    IF At(ps.mFilePtr) = NUL THEN Return(ps, top)
    ELSE Continue(SkipSpacesAndLineEnd(Advance(ps, 1)), top)

\* Parser::ParseLV1SoftSkinBlock. The model keeps the arrays of the last mesh
\* only, which is the mesh found when the name is known
ParseLV1SoftSkinBlock(ps, top) ==
    LET ch == At(ps.mFilePtr)
        end == NameEnd(ps)
        name == SubSeq(input, ps.mFilePtr + 1, end.mFilePtr)
        curMesh == \E it \in 1 .. Len(m_vMeshes) : <<m_vMeshes[it]>> = name
        skipped == SkipMeshData(LogWarning(end, "Encountered unknown mesh in *MESH_SOFTSKINVERTS section"))
        numVerts == ParseLV4MeshLong(SkipSpacesAndLineEnd(end))
        verts == SoftSkinVertices(numVerts.ps, numVerts.value, mesh.mBones, mesh.mBoneVertices)
    IN  IF ch = "}" THEN Return(Advance(ps, 1), top)
        ELSE IF ch = NUL THEN Return(ps, top)
        ELSE IF ch = "{" THEN SoftSkinNext(Advance(ps, 1), top)
        ELSE IF end.mFilePtr = ps.mFilePtr THEN SoftSkinNext(ps, top)
        ELSE IF ~curMesh
        THEN IF skipped.returned THEN Return(skipped.ps, top) ELSE SoftSkinNext(skipped.ps, top)
        ELSE [IF verts.thrown THEN NotARealNumber(verts.ps, top) ELSE SoftSkinNext(verts.ps, top)
                 EXCEPT !.mesh.mBones = verts.mBones,
                        !.mesh.mBoneVertices = verts.mBoneVertices]

SoftSkinBlockStep ==
    Running("ParseLV1SoftSkinBlock") /\ Commit(ParseLV1SoftSkinBlock(PS, Head(stack)))

\* the (bone name, weight) pairs of a vertex: up to two, of the names a and b
SoftSkinPairs == SeqsUpTo({"a", "b"}, 2)

RECURSIVE SoftSkinPairsText(_, _)
SoftSkinPairsText(pairs, j) ==
    IF pairs = <<>> THEN <<>>
    ELSE <<SP, QUOTE, Head(pairs), QUOTE, SP, Digit(j)>> \o SoftSkinPairsText(Tail(pairs), j + 1)

\* "<number of weights> <bone name> <weight> ..." for each vertex
RECURSIVE SoftSkinVerticesText(_)
SoftSkinVerticesText(verts) ==
    IF verts = <<>> THEN <<>>
    ELSE <<Digit(Len(Head(verts)))>> \o SoftSkinPairsText(Head(verts), 1) \o <<LF>>
             \o SoftSkinVerticesText(Tail(verts))

\* "{ <nodename> <number of vertices> <vertices> }"
SoftSkinText(name, verts) ==
    <<"{", LF, name, LF, Digit(Len(verts)), LF>> \o SoftSkinVerticesText(verts)
        \o <<"}", LF, NUL>>

\* the bones that the mesh has when the block begins
EarlierBones ==
    {<<>>, <<Bone(<<"b">>)>>, <<Bone(<<"a">>), Bone(<<"a">>)>>,
     <<Bone(<<"UNNAMED">>), Bone(<<"b">>)>>}

\* ParseLV1SoftSkinBlock has just been called; the file has the mesh Box01
SoftSkinInit ==
    /\ \E name \in {"Box01", "Box02"}, verts \in SeqsUpTo(SoftSkinPairs, MaxEntries) :
          input = SoftSkinText(name, verts)
    /\ mEnd = Len(input) - 1
    /\ mFilePtr = 0
    /\ iLineNumber = 0
    /\ bLastWasEndLine = FALSE
    /\ lineHits = <<>>
    /\ stack = <<Frame("ParseLV1SoftSkinBlock")>>
    /\ fatal = <<>>
    /\ m_vMaterials = <<>>
    /\ m_vMeshes = <<"Box01">>
    /\ \E bones \in EarlierBones : mesh = [NewMesh EXCEPT !.mBones = bones]
    /\ pc = "parse"
    /\ warnings = <<>>
    /\ ub = {}
    /\ FacesIdle /\ UVIdle
    /\ MaterialsIdle
    /\ SceneIdle

SoftSkinStepNext == SoftSkinBlockStep

SpecSoftSkin == SoftSkinInit /\ [][SoftSkinStepNext]_vars

\* the reader is at the name of a known mesh
AtKnownMesh ==
    /\ Running("ParseLV1SoftSkinBlock")
    /\ \E it \in 1 .. Len(m_vMeshes) : m_vMeshes[it] = At(mFilePtr)

\* the names between quotation marks from one place of the input to another
RECURSIVE QuotedNames(_, _)
QuotedNames(from, to) ==
    IF from >= to THEN <<>>
    ELSE IF At(from) = QUOTE THEN <<<<At(from + 1)>>>> \o QuotedNames(from + 3, to)
    ELSE QuotedNames(from + 1, to)

\* the bone indices stored in the vertices, in the order of the pairs
RECURSIVE StoredBones(_)
StoredBones(verts) ==
    IF verts = <<>> THEN <<>>
    ELSE [k \in 1 .. Len(Head(verts).mBoneWeights) |-> Head(verts).mBoneWeights[k][1]]
             \o StoredBones(Tail(verts))

\* the pairs of a known mesh are read: each stored index is the place of the
\* first bone with the pair's name; the bones that were there are kept, and the
\* bones added have names that were read and that no bone before them has
SoftSkinResolved ==
    AtKnownMesh =>
        LET names == QuotedNames(mFilePtr, mFilePtr')
            stored == StoredBones(SubSeq(mesh'.mBoneVertices, Len(mesh.mBoneVertices) + 1,
                                         Len(mesh'.mBoneVertices)))
            before == Len(mesh.mBones)
            after == mesh'.mBones
        IN  /\ Len(stored) = Len(names)
            /\ \A k \in 1 .. Len(stored) :
                   /\ stored[k] >= 0 /\ stored[k] < Len(after)
                   /\ after[stored[k] + 1].mName = names[k]
                   /\ \A n \in 1 .. stored[k] : after[n].mName # names[k]
            /\ \A k, l \in 1 .. Len(stored) : names[k] = names[l] => stored[k] = stored[l]
            /\ Len(after) >= before
            /\ SubSeq(after, 1, before) = mesh.mBones
            /\ \A n \in before + 1 .. Len(after) :
                   /\ \A m \in 1 .. n - 1 : after[m].mName # after[n].mName
                   /\ \E k \in 1 .. Len(names) : names[k] = after[n].mName

\* C23: in the soft skin block each (bone name, weight) pair of a known mesh is
\* stored with the index of the first bone of the mesh that has the name; a
\* name that no bone has adds exactly one bone, whose index is stored; so a name
\* met again gets the same index, the block adds no bone twice, and every
\* stored index is below the number of bones
C23_SoftSkinBones == [][SoftSkinResolved]_vars

\* a mesh with two bones named a: the pairs (a, b) and (b, a) are stored with
\* the indices 0, 2 and 2, 0, and one bone b is added
C23_Witness ==
    /\ pc = "done"
    /\ mesh.mBones = <<Bone(<<"a">>), Bone(<<"a">>), Bone(<<"b">>)>>
    /\ mesh.mBoneVertices = <<[mBoneWeights |-> <<<<0, 1>>, <<2, 2>>>>],
                              [mBoneWeights |-> <<<<2, 1>>, <<0, 2>>>>]>>


----------------------------------------------------------------------------
(* ASEParser.cpp: a mesh block with an additional UV channel *)

\* "*MESH_NUMTVERTEX <n> *MESH_TVERTLIST { <n entries> }", the entries with
\* the values j, j + 1, j - 1
RECURSIVE TVertEntries(_, _)
TVertEntries(n, j) ==
    IF j > n THEN <<>>
    ELSE Keyword("MESH_TVERT") \o <<Digit(j - 1), SP, Digit(j), SP, Digit(j + 1), TAB,
                                   Digit(j - 1), LF>>
             \o TVertEntries(n, j + 1)

TVertList(n) ==
    IF n = 0 THEN <<>>
    ELSE Keyword("MESH_NUMTVERTEX") \o <<Digit(n), LF>> \o Keyword("MESH_TVERTLIST")
             \o <<"{", LF>> \o TVertEntries(n, 1) \o <<"}", LF>>

\* the indices of the channel block: invalid, first and last valid, too large
ChannelIndices == {0, 1, 2, AI_MAX_NUMBER_OF_TEXTURECOORDS, AI_MAX_NUMBER_OF_TEXTURECOORDS + 1}

\* "{ *MESH_MAPPINGCHANNEL <i> { <list> } <list> }": the mesh block
ChannelText(iIndex, inside, following) ==
    <<"{", LF>> \o Keyword("MESH_MAPPINGCHANNEL") \o <<Digit(iIndex), SP, "{", LF>>
        \o TVertList(inside) \o <<"}", LF>> \o TVertList(following) \o <<"}", LF, NUL>>

\* ParseLV2MeshBlock has just been called for a new mesh
ChannelInit ==
    /\ \E iIndex \in ChannelIndices, inside \in 0 .. MaxEntries, following \in 0 .. MaxEntries :
          input = ChannelText(iIndex, inside, following)
    /\ mEnd = Len(input) - 1
    /\ mFilePtr = 0
    /\ iLineNumber = 0
    /\ bLastWasEndLine = FALSE
    /\ lineHits = <<>>
    /\ stack = <<Frame("ParseLV2MeshBlock")>>
    /\ fatal = <<>>
    /\ m_vMaterials = <<>>
    /\ m_vMeshes = <<"UNNAMED">>
    /\ mesh = NewMesh
    /\ pc = "parse"
    /\ warnings = <<>>
    /\ ub = {}
    /\ FacesIdle /\ UVIdle
    /\ MaterialsIdle
    /\ SceneIdle

ChannelNext == MeshBlockStep \/ MappingChannelStep \/ TListBlockStep

SpecChannel == ChannelInit /\ [][ChannelNext]_vars

\* the index that the channel block of the file declares
ChannelIndex == DigitValue(input[6])

\* the handler of a mapping channel is running, for channel number c
InMappingChannel(c) ==
    \E f \in 1 .. Len(stack) : stack[f].fn = "ParseLV3MappingChannel" /\ stack[f].iNum = c

\* the channel keyword and its index have been read
ChannelRead == mFilePtr > 5

\* C24: a *MESH_MAPPINGCHANNEL with the index 0, 1 or one above the number of
\* UV channels is skipped with a warning, nothing in it and nothing after it is
\* read as a mapping channel, and nothing of it is stored in a UV channel; an
\* index i from 2 to the number of UV channels is stored in channel i - 1, the
\* channel written being inside [0, max)
C24_MappingChannel ==
    IF ChannelIndex \in 2 .. AI_MAX_NUMBER_OF_TEXTURECOORDS
    THEN /\ \A c \in 0 .. AI_MAX_NUMBER_OF_TEXTURECOORDS : InMappingChannel(c) => c = ChannelIndex - 1
         /\ \A c \in 1 .. AI_MAX_NUMBER_OF_TEXTURECOORDS :
                (mesh # <<>> /\ mesh.amTexCoords[c] # <<>>) => c \in {1, ChannelIndex}
    ELSE /\ \A c \in 0 .. AI_MAX_NUMBER_OF_TEXTURECOORDS : ~InMappingChannel(c)
         /\ ChannelRead => Len(warnings) > 0
         /\ \A c \in 2 .. AI_MAX_NUMBER_OF_TEXTURECOORDS : mesh.amTexCoords[c] = <<>>
         /\ pc # "failed"

----------------------------------------------------------------------------
(* glTFImporter::ImportMeshes: the texture coordinates of one primitive *)

\* the v of a texture coordinate
UVValues == {0, 1}

\* an accessor of count elements with the v values vs
Accessor(vs) == [count |-> Len(vs), v |-> vs]

\* Accessor::ExtractData: a new array of the accessor's count elements, filled
\* from the accessor
ExtractData(acc) == acc.v

\* values[k].y = 1 - values[k].y for the n first elements: the elements the
\* array has
FlipY(values, n) ==
    [k \in 1 .. Len(values) |-> IF k <= n THEN 1 - values[k] ELSE values[k]]

\* the accesses of the loop to elements the array does not have
FlipOutOfRange(values, n) ==
    IF n > Len(values) THEN {"values[i] is past the end of the array"} ELSE {}

UVInit ==
    /\ \E n \in 0 .. MaxIndex : position \in {<<>>, <<Null>>, <<[count |-> n]>>}
    /\ texcoord \in SeqsUpTo({Accessor(vs) : vs \in SeqsUpTo(UVValues, MaxIndex)}, MaxItems)
    /\ tc = 0
    /\ mTextureCoords = <<>>
    /\ pc = "position"
    /\ warnings = <<>>
    /\ ub = {}
    /\ FacesIdle
    /\ MaterialsIdle
    /\ SceneIdle
    /\ AseIdle

\* if (attr.position.size() > 0 && attr.position[0]) aim->mNumVertices = count
ExtractPositions ==
    /\ pc = "position"
    /\ mNumVertices' = IF Len(position) > 0 /\ position[1] # Null
                       THEN position[1].count
                       ELSE mNumVertices
    /\ pc' = "texcoord"
    /\ UNCHANGED <<mode, indexed, data, count, nFaces, faces, i>>
    /\ UNCHANGED <<warnings, ub, uvVars, matVars, sceneVars, aseVars>>

\* one iteration of the loop over attr.texcoord; when the flip met undefined
\* behaviour the build may also fault there
ExtractTexCoords ==
    /\ pc = "texcoord"
    /\ tc < Len(texcoord) /\ tc < AI_MAX_NUMBER_OF_TEXTURECOORDS
    /\ LET values == ExtractData(texcoord[tc + 1])
           ubs == FlipOutOfRange(values, mNumVertices)
       IN  \/ /\ mTextureCoords' = Append(mTextureCoords, FlipY(values, mNumVertices))
              /\ tc' = tc + 1
              /\ ub' = ub \cup ubs
              /\ pc' = pc
           \/ /\ ubs # {}
              /\ ub' = ub \cup ubs
              /\ pc' = "fault"
              /\ UNCHANGED <<tc, mTextureCoords>>
    /\ UNCHANGED <<position, texcoord, warnings, faceVars, matVars, sceneVars, aseVars>>

TexCoordsEnd ==
    /\ pc = "texcoord"
    /\ ~(tc < Len(texcoord) /\ tc < AI_MAX_NUMBER_OF_TEXTURECOORDS)
    /\ pc' = "done"
    /\ UNCHANGED <<warnings, ub, faceVars, uvVars, matVars, sceneVars, aseVars>>

UVNext == ExtractPositions \/ ExtractTexCoords \/ TexCoordsEnd

SpecUV == UVInit /\ [][UVNext]_vars

\* C25: every element of every UV set copied so far has been flipped exactly
\* once (v' = 1 - v), the copy has as many elements as the UV accessor, and no
\* element at an index >= the UV accessor's count has been read or written,
\* whatever the position accessor's count is
C25_UVFlip ==
    /\ ub = {}
    /\ pc # "fault"
    /\ \A t \in 1 .. Len(mTextureCoords) :
         /\ Len(mTextureCoords[t]) = texcoord[t].count
         /\ \A k \in 1 .. texcoord[t].count :
              mTextureCoords[t][k] = 1 - texcoord[t].v[k]

----------------------------------------------------------------------------
(* Parser::ParseLV2MeshBlock: a *MESH_ANIMATION element inside a mesh *)

\* one entry with the index 0 and all its fields
OneEntry == <<[index |-> 0, form |-> "full"]>>

\* what a mesh block or the block of a *MESH_ANIMATION element holds: nothing,
\* an unknown keyword, a nested *MESH block, counts, lists
MeshItems ==
    {<<>>,
     Keyword("TIMEVALUE") \o <<"0", LF>>,
     Keyword("MESH") \o <<"{", LF, "}", LF>>,
     Keyword("MESH_NUMVERTEX") \o <<Digit(MaxIndex), LF>>,
     Keyword("MESH_NUMFACES") \o <<Digit(MaxIndex), LF>>,
     ListBlock("MESH_NUMVERTEX", "MESH_VERTEX_LIST", "ParseLV3MeshVertexListBlock", 1, OneEntry),
     ListBlock("MESH_NUMFACES", "MESH_FACE_LIST", "ParseLV3MeshFaceListBlock", 1, OneEntry),
     ListBlock("MESH_NUMTVERTEX", "MESH_TVERTLIST", "ParseLV3MeshTListBlock", 1, OneEntry)}

\* "{ <items> *MESH_ANIMATION { <items> } }": the mesh block, the element last in it
MeshAnimationText(before, nested) ==
    <<"{", LF>> \o Flatten(before) \o Keyword("MESH_ANIMATION") \o <<"{", LF>>
        \o Flatten(nested) \o <<"}", "}", NUL>>

\* ParseLV2MeshBlock has just been called for a new mesh
MeshAnimationInit ==
    /\ \E before \in SeqsUpTo(MeshItems, MaxItems - 1), nested \in SeqsUpTo(MeshItems, MaxItems) :
          input = MeshAnimationText(before, nested)
    /\ mEnd = Len(input) - 1
    /\ mFilePtr = 0
    /\ iLineNumber = 0
    /\ bLastWasEndLine = FALSE
    /\ lineHits = <<>>
    /\ stack = <<Frame("ParseLV2MeshBlock")>>
    /\ fatal = <<>>
    /\ m_vMaterials = <<>>
    /\ m_vMeshes = <<"UNNAMED">>
    /\ mesh = NewMesh
    /\ pc = "parse"
    /\ warnings = <<>>
    /\ ub = {}
    /\ FacesIdle /\ UVIdle
    /\ MaterialsIdle
    /\ SceneIdle

MeshAnimationNext ==
    MeshBlockStep \/ VertexListBlockStep \/ FaceListBlockStep \/ TListBlockStep

SpecMeshAnimation == MeshAnimationInit /\ [][MeshAnimationNext]_vars

\* the offsets of the element: of its asterisk, and after its closing brace
AnimationStart ==
    CHOOSE k \in 0 .. Len(input) : At(k) = "*" /\ At(k + 1) = "MESH_ANIMATION"
AnimationEnd == Len(input) - 2

\* the cursor is on the element or inside its braces
InMeshAnimation == mFilePtr >= AnimationStart /\ mFilePtr < AnimationEnd

\* the frame of the mesh block, the outermost one
MeshFrame(frames) == frames[Len(frames)]

\* the counts the mesh block has read
DeclaredCounts(frames) ==
    <<MeshFrame(frames).iNumVertices, MeshFrame(frames).iNumFaces,
      MeshFrame(frames).iNumTVertices, MeshFrame(frames).iNumTFaces,
      MeshFrame(frames).iNumCVertices, MeshFrame(frames).iNumCFaces>>

\* the positions, faces and UV data of a mesh
MeshData(m) == <<m.mPositions, m.mFaces, m.amTexCoords>>

\* C26: a *MESH_ANIMATION element inside a mesh block is ignored: no step
\* taken with the cursor on the element or inside its braces, whatever keywords
\* are nested there, changes the declared counts of the mesh block or the
\* positions, faces and UV data of the mesh
C26_MeshAnimationIgnored ==
    [][(InMeshAnimation /\ stack # <<>> /\ stack' # <<>>)
          => /\ DeclaredCounts(stack') = DeclaredCounts(stack)
             /\ MeshData(mesh') = MeshData(mesh)]_vars

----------------------------------------------------------------------------
(* Termination of the parser *)

\* Parse() has been called on a file, or one of the handlers that read
\* without keywords has been called on its block
TerminationInit == ParserInit \/ MaterialListInit \/ SoftSkinInit \/ FaceInit

TerminationNext == ParserNext \/ SoftSkinBlockStep \/ FaceListBlockStep

SpecTermination == TerminationInit /\ [][TerminationNext]_vars

\* the call has returned, or has thrown the fatal error
ParseOver == pc \in {"done", "failed"}

\* an iteration of a handler loop returns, throws, or moves the cursor forward
IterationAdvances ==
    \/ Len(stack') < Len(stack)
    \/ pc' = "failed"
    \/ mFilePtr' > mFilePtr

\* a bound of the number of iterations still to come: nothing when the call is
\* over, and else what is left of the file, counted twice for the handler that an
\* iteration may call, and the handlers that have still to return
IterationsLeft(over, cursor, frames) ==
    IF over THEN 0 ELSE 2 * (Len(input) - cursor) + Len(frames)

\* C27: every iteration of every handler loop returns, raises the fatal error
\* or strictly advances the cursor, and each one lowers a natural number that
\* bounds the iterations still to come, so that the call of the parser on a file
\* that ends with a zero byte returns or fails after finitely many of them
C27_Terminates ==
    [][/\ IterationAdvances
       /\ IterationsLeft(ParseOver, mFilePtr, stack) \in Nat
       /\ IterationsLeft(ParseOver', mFilePtr', stack') \in Nat
       /\ IterationsLeft(ParseOver', mFilePtr', stack')
             < IterationsLeft(ParseOver, mFilePtr, stack)]_vars

\* the material list has recovered from a missing brace and the parser has
\* returned
C27_Witness ==
    /\ pc = "done"
    /\ \E w \in 1 .. Len(warnings) : warnings[w].msg = "Missing closing brace in material list"

----------------------------------------------------------------------------
(* glTFImporter::ImportMeshes: primitives with fewer indices than one face *)

\* C28: for every mode and every count, also one below what a face needs, the
\* face count computed is at most count (count - 1 and count - 2 do not wrap
\* around), every face written lies inside the allocated array, and every
\* position read in the index buffer is below count
C28_SmallCounts ==
    /\ pc # "switch" => nFaces <= InputCount
    /\ "face_write_oob" \notin ub
    /\ "index_read_oob" \notin ub

----------------------------------------------------------------------------
(* Parser::ParseLV3MeshFaceListBlock: a face record that fails to parse *)

\* the warnings of ParseLV4MeshFace for a record it gives up before the three
\* vertex indices are read
FaceFailures ==
    {"Unable to parse *MESH_FACE Element: Unexpected EOL [#1]",
     FaceColonWarning,
     "Unable to parse *MESH_FACE Element: Unexpected EOL",
     "Unable to parse *MESH_FACE Element: Unexpected EOL. A,B or C expected [#3]",
     "Unable to parse *MESH_FACE Element: Unexpected EOL. Vertex index expected [#4]"}

\* the step reads a *MESH_FACE record and the face reader gives it up
FaceRecordFails ==
    /\ Running("ParseLV3MeshFaceListBlock")
    /\ \E w \in Len(warnings) + 1 .. Len(warnings') : warnings'[w].msg \in FaceFailures

\* C29: a *MESH_FACE record that the face reader gives up with one of its
\* warnings leaves the face array of the mesh as it was: no face, not face 0
\* and not the face with the index read, is overwritten
C29_FailedFaceKept == [][FaceRecordFails => mesh'.mFaces = mesh.mFaces]_vars

----------------------------------------------------------------------------
(* Line counting of the dispatch loops and of SkipToNextToken *)

\* pieces of a file with the three line breaks, read by the loops of Parse and
\* of the scene block alone
BreakChunks ==
    {<<CR, LF>>, <<LF>>, <<CR>>, <<SP>>, <<"{">>, <<"}">>, Keyword("SCENE"), <<"*", "SCENE">>}

\* Parser::Parser, and the call of Parse()
LinesInit ==
    /\ \E cs \in SeqsUpTo(BreakChunks, MaxChunks + 1) : input = Flatten(cs) \o <<NUL>>
    /\ mEnd = Len(input) - 1
    /\ mFilePtr = 0
    /\ iLineNumber = 0
    /\ bLastWasEndLine = FALSE
    /\ lineHits = <<>>
    /\ stack = <<Frame("Parse")>>
    /\ fatal = <<>>
    /\ m_vMaterials = <<>>
    /\ m_vMeshes = <<>>
    /\ mesh = <<>>
    /\ pc = "parse"
    /\ warnings = <<>>
    /\ ub = {}
    /\ FacesIdle /\ UVIdle
    /\ MaterialsIdle
    /\ SceneIdle

LinesNext == ParseStep \/ SceneBlockStep

SpecLines == LinesInit /\ [][LinesNext]_vars

\* the line breaks in the first n bytes of the file: a carriage return with the
\* line feed after it is one, a line feed or a carriage return alone is one
LineBreaks(n) ==
    Cardinality({k \in 1 .. n :
                    \/ input[k] = CR
                    \/ input[k] = LF /\ (k = 1 \/ input[k - 1] # CR)})

\* C30: when the dispatch loops and SkipToNextToken have moved the cursor over
\* a prefix of the file, the line counter is the number of line breaks of that
\* prefix, consecutive line breaks (blank lines) each counted
C30_LinesCounted == iLineNumber = LineBreaks(mFilePtr)

====
